---- MODULE Spec2Model ----
(***************************************************************************)
(* BlockTracker: the Web3Service aggregation layer (web3-service.js), the  *)
(* helpers (helpers.js) and the page logic that drives them (app.js).      *)
(*                                                                         *)
(* Strings are sequences of one-character strings; a BigInt is a sequence  *)
(* of decimal digits 0..9, most significant first, without leading zeros;  *)
(* null is the empty sequence << >> where a value is optional.             *)
(***************************************************************************)
EXTENDS Integers, Sequences, FiniteSets, TLC

VARIABLES
  provider,             \* Web3Service.provider: "null" or "rpc"
  network,              \* Web3Service.network
  alchemyKey,           \* Web3Service.alchemyKey: "null" or a key
  etherscanKey,         \* Web3Service.etherscanKey: "null" or a key
  world,                \* what the chain and the indexer hold for the target
  currentAnalysisType,  \* state.currentAnalysisType
  currentData,          \* state.currentData: << >> (null) or <<report>>
  addressInput,         \* elements.addressInput.value
  ui,                   \* visibility and text of the page's panels
  calls                 \* the invocations made so far, each with its locals

vars == <<provider, network, alchemyKey, etherscanKey, world,
          currentAnalysisType, currentData, addressInput, ui, calls>>

Null == << >>
Some(v) == <<v>>

(***************************************************************************)
(* Characters                                                              *)
(***************************************************************************)
DigitChars == <<"0", "1", "2", "3", "4", "5", "6", "7", "8", "9">>
Digits09 == {"0", "1", "2", "3", "4", "5", "6", "7", "8", "9"}
LowerAF == {"a", "b", "c", "d", "e", "f"}
UpperAF == {"A", "B", "C", "D", "E", "F"}
LowerAZ == LowerAF \cup {"g", "x", "z"}
UpperAZ == UpperAF \cup {"G", "X", "Z"}

Repeat(c, n) == [i \in 1..n |-> c]

(***************************************************************************)
(* helpers.js: isValidAddress, the regular expression                      *)
(*     /^0x[a-fA-F0-9]{40}$/                                               *)
(* run as the matcher runs it: a position that moves over the subject.     *)
(* A position of 0 means "no match".                                       *)
(***************************************************************************)
HexQuantifier == 40

MatchLiteral(s, pos, c) ==
  IF pos # 0 /\ pos <= Len(s) /\ s[pos] = c THEN pos + 1 ELSE 0

AddressClassWide == LowerAZ \cup UpperAZ \cup Digits09
AddressClass == LowerAF \cup UpperAF \cup Digits09

RECURSIVE MatchClassTimes(_, _, _, _)
MatchClassTimes(s, pos, class, n) ==
  IF n = 0 THEN pos
  ELSE IF pos # 0 /\ pos <= Len(s) /\ s[pos] \in class
       THEN MatchClassTimes(s, pos + 1, class, n - 1)
       ELSE 0

MatchEndUnanchored(s, pos) == pos # 0
MatchEnd(s, pos) == pos # 0 /\ pos = Len(s) + 1

isValidPrefix(address) ==
  MatchLiteral(address, MatchLiteral(address, 1, "0"), "x") # 0

isValidAddress(address) ==
  LET p1 == MatchLiteral(address, 1, "0")
      p2 == MatchLiteral(address, p1, "x")
      p3 == MatchClassTimes(address, p2, AddressClass, HexQuantifier)
  IN  MatchEnd(address, p3)

(***************************************************************************)
(* Numbers.  ethers.formatUnits turns a BigInt into a decimal string;      *)
(* parseFloat turns a decimal string into a Number, kept here as its exact *)
(* decimal expansion [whole, frac]; Number.prototype.toFixed(4) renders a  *)
(* Number below 10^21 with four decimals.                                  *)
(***************************************************************************)
BigIntToString(b) == [i \in 1..Len(b) |-> DigitChars[b[i] + 1]]

BigIntIsPositive(b) == \E i \in 1..Len(b) : b[i] > 0

RECURSIVE TrimWhole(_)
TrimWhole(str) ==
  IF Len(str) > 1 /\ str[1] = "0" THEN TrimWhole(Tail(str)) ELSE str

RECURSIVE TrimFractionTo(_, _)
TrimFractionTo(str, least) ==
  IF Len(str) > least /\ str[Len(str)] = "0"
  THEN TrimFractionTo(SubSeq(str, 1, Len(str) - 1), least)
  ELSE str

\* ethers v6 formatUnits(value, decimals), decimals a Number known to be an integer
formatUnits(value, decimals) ==
  LET str == BigIntToString(value)
  IN  IF decimals = 0 THEN str
      ELSE LET padded == IF Len(str) <= decimals
                         THEN Repeat("0", decimals + 1 - Len(str)) \o str
                         ELSE str
               index == Len(padded) - decimals
           IN  TrimWhole(SubSeq(padded, 1, index)) \o <<".">>
                 \o TrimFractionTo(SubSeq(padded, index + 1, Len(padded)), 1)

EtherDecimals == 18
formatEther(wei) == formatUnits(wei, EtherDecimals)

IndexOf(str, c) ==
  IF \E i \in 1..Len(str) : str[i] = c
  THEN CHOOSE i \in 1..Len(str) : str[i] = c /\ \A j \in 1..(i - 1) : str[j] # c
  ELSE 0

\* parseFloat of a string of the form digits or digits.digits
parseFloat(str) ==
  LET dot == IndexOf(str, ".")
  IN  IF dot = 0
      THEN [whole |-> TrimWhole(str), frac |-> << >>]
      ELSE [whole |-> TrimWhole(SubSeq(str, 1, dot - 1)),
            frac  |-> TrimFractionTo(SubSeq(str, dot + 1, Len(str)), 0)]

RECURSIVE Increment(_)
Increment(str) ==
  IF str = << >> THEN <<"1">>
  ELSE LET last == str[Len(str)]
           init == SubSeq(str, 1, Len(str) - 1)
       IN  IF last = "9" THEN Increment(init) \o <<"0">>
           ELSE init \o <<DigitChars[(CHOOSE d \in 1..9 : DigitChars[d] = last) + 1]>>

FixedDigits == 4

\* A Number is the double nearest to the decimal it was parsed from.  Where the
\* decimal lies within TieWindow digits of a rounding tie the double may lie on
\* either side of it; `up` is the side it lies on.
TieWindow == 5

NearTie(rest) ==
  \/ rest[1] = "5" /\ \A i \in 2..(TieWindow + 1) : rest[i] = "0"
  \/ rest[1] = "4" /\ \A i \in 2..(TieWindow + 1) : rest[i] = "9"

RoundsUp(rest, up) ==
  IF NearTie(rest) THEN up ELSE rest[1] \in {"5", "6", "7", "8", "9"}

IsNearTie(x) ==
  NearTie(SubSeq(x.frac \o Repeat("0", FixedDigits + TieWindow + 1),
                 FixedDigits + 1, FixedDigits + TieWindow + 1))

\* x.toFixed(4) for x < 10^21
toFixed4(x, up) ==
  LET f    == x.frac \o Repeat("0", FixedDigits + TieWindow + 1)
      keep == SubSeq(f, 1, FixedDigits)
      rest == SubSeq(f, FixedDigits + 1, Len(f))
      n    == x.whole \o keep
      m    == IF RoundsUp(rest, up) THEN Increment(n) ELSE n
  IN  SubSeq(m, 1, Len(m) - FixedDigits) \o <<".">>
        \o SubSeq(m, Len(m) - FixedDigits + 1, Len(m))

\* the sign of a - b for two Numbers: -1, 0 or 1
CompareNumbers(a, b) ==
  IF Len(a.whole) # Len(b.whole)
  THEN (IF Len(a.whole) < Len(b.whole) THEN -1 ELSE 1)
  ELSE LET n  == IF Len(a.frac) > Len(b.frac) THEN Len(a.frac) ELSE Len(b.frac)
           da == a.whole \o a.frac \o Repeat("0", n - Len(a.frac))
           db == b.whole \o b.frac \o Repeat("0", n - Len(b.frac))
           D(c) == CHOOSE d \in 1..10 : DigitChars[d] = c
       IN  IF da = db THEN 0
           ELSE LET k == CHOOSE i \in 1..Len(da) :
                           da[i] # db[i] /\ \A j \in 1..(i - 1) : da[j] = db[j]
                IN  IF D(da[k]) < D(db[k]) THEN -1 ELSE 1

\* parseInt of a string: the value of its leading digits, NaN (-1) without any
RECURSIVE ParseDigits(_, _, _)
ParseDigits(str, i, acc) ==
  IF i <= Len(str) /\ str[i] \in Digits09
  THEN ParseDigits(str, i + 1,
                   acc * 10 + (CHOOSE d \in 0..9 : DigitChars[d + 1] = str[i]))
  ELSE acc

NaN == 0 - 1
parseInt(str) ==
  IF Len(str) > 0 /\ str[1] \in Digits09 THEN ParseDigits(str, 1, 0) ELSE NaN

(***************************************************************************)
(* Invocations.  A frame is one invocation of an entry point (the page's   *)
(* handleAnalyze or init, or a method of the service called directly) with *)
(* the locals of the calls it has made.  pc names the upstream request the *)
(* invocation is awaiting; log keeps the answers it has been given, in the *)
(* worlds that record them.  Code between two awaits of upstream requests   *)
(* runs without interruption (promise continuations are microtasks).       *)
(***************************************************************************)
NewFrame(entry, address, mode) ==
  [entry |-> entry, pc |-> "start", status |-> "running", address |-> address,
   mode |-> mode, issued |-> {}, queried |-> << >>, error |-> << >>,
   result |-> Null, wei |-> << >>, txCount |-> 0, info |-> Null,
   transactions |-> << >>, queue |-> << >>, tokens |-> << >>,
   name |-> "", symbol |-> "", log |-> << >>]

Returned(f, value) ==
  [f EXCEPT !.status = "returned", !.pc = "done", !.result = Some(value)]
Threw(f, message) ==
  [f EXCEPT !.status = "threw", !.pc = "done", !.error = message]
Issue(f, op) == [f EXCEPT !.issued = @ \cup {op}, !.pc = op]

\* the message as thrown, less the gear sign that precedes "button"
ConfigError == <<"Please configure your API keys in Settings (button)">>
NotContractError ==
  <<"This address is not a smart contract (no code deployed)">>
NotContractErrorNFT == <<"This address is not a smart contract">>
ContractInfoError == <<"Failed to fetch contract information">>
NullProviderError(method) ==
  <<"Cannot read properties of null (reading ", "'", method, "'", ")">>
Unknown == "Unknown"

\* an indexer response: the fetch or the JSON decoding failed, or an envelope
IndexerFailure == [kind |-> "failure", status |-> "", isArray |-> FALSE, result |-> << >>]
Envelope(status, isArray, result) ==
  [kind |-> "json", status |-> status, isArray |-> isArray, result |-> result]

(***************************************************************************)
(* web3-service.js: getENSName                                             *)
(***************************************************************************)
ENSReturnFirstRecord(f, ensName) ==
  IF f.entry = "getENSName" THEN Returned(f, ensName)
  ELSE Returned(f,
         [address |-> f.address,
          balance |-> f.info[1].balance,
          balanceWei |-> f.info[1].balanceWei,
          txCount |-> f.info[1].txCount,
          blockNumber |-> f.info[1].blockNumber,
          ensName |-> ensName,
          transactions |-> f.transactions,
          tokens |-> f.tokens,
          firstTx |-> IF Len(f.transactions) > 0
                      THEN Some(f.transactions[1].timestamp)
                      ELSE Null])
ENSReturn(f, ensName) ==
  IF f.entry = "getENSName" THEN Returned(f, ensName)
  ELSE Returned(f,
         [address |-> f.address,
          balance |-> f.info[1].balance,
          balanceWei |-> f.info[1].balanceWei,
          txCount |-> f.info[1].txCount,
          blockNumber |-> f.info[1].blockNumber,
          ensName |-> ensName,
          transactions |-> f.transactions,
          tokens |-> f.tokens,
          firstTx |-> IF Len(f.transactions) > 0
                      THEN Some(f.transactions[Len(f.transactions)].timestamp)
                      ELSE Null])

ENSNetworkGuardMissing(net) == FALSE
ENSNetworkGuard(net) == net # "mainnet"

getENSName(f) ==
  IF ENSNetworkGuard(network) THEN ENSReturn(f, Null)
  ELSE IF provider = "null" THEN ENSReturn(f, Null)
  ELSE Issue(f, "lookupAddress")

LookupFailureThrows(f, ok, ensName) ==
  IF ok THEN ENSReturn(f, ensName) ELSE Threw(f, <<"could not detect network">>)
OnLookupAddress(f, ok, ensName) ==
  IF ok THEN ENSReturn(f, ensName) ELSE ENSReturn(f, Null)

(***************************************************************************)
(* web3-service.js: getTokenBalances                                       *)
(***************************************************************************)
TokenLimit == 10

TokenPerTransfer(result, i, acc) ==
  [k \in 1..Len(result) |-> [contractAddress |-> result[k].contractAddress,
                             name |-> result[k].tokenName,
                             symbol |-> result[k].tokenSymbol,
                             decimals |-> parseInt(result[k].tokenDecimal)]]

RECURSIVE UniqueTokens(_, _, _)
UniqueTokens(result, i, acc) ==
  IF i > Len(result) THEN acc
  ELSE LET tx == result[i]
       IN  IF \E k \in 1..Len(acc) : acc[k].contractAddress = tx.contractAddress
           THEN UniqueTokens(result, i + 1, acc)
           ELSE UniqueTokens(result, i + 1,
                  Append(acc, [contractAddress |-> tx.contractAddress,
                               name |-> tx.tokenName,
                               symbol |-> tx.tokenSymbol,
                               decimals |-> parseInt(tx.tokenDecimal)]))

SliceNoLimit(tokens) == tokens
SliceLimit(tokens) ==
  SubSeq(tokens, 1, IF Len(tokens) < TokenLimit THEN Len(tokens) ELSE TokenLimit)

\* (a, b) => parseFloat(b.balance) - parseFloat(a.balance)
ByBalanceAscending(a, b) ==
  CompareNumbers(parseFloat(a.balance), parseFloat(b.balance))
ByBalanceDescending(a, b) ==
  CompareNumbers(parseFloat(b.balance), parseFloat(a.balance))

\* Array.prototype.sort is stable: x goes behind every element not after it
RECURSIVE InsertSorted(_, _, _)
InsertSorted(sorted, x, i) ==
  IF i <= Len(sorted) /\ ByBalanceDescending(sorted[i], x) <= 0
  THEN InsertSorted(sorted, x, i + 1)
  ELSE SubSeq(sorted, 1, i - 1) \o <<x>> \o SubSeq(sorted, i, Len(sorted))

RECURSIVE SortTokens(_, _, _)
SortTokens(list, i, acc) ==
  IF i > Len(list) THEN acc
  ELSE SortTokens(list, i + 1, InsertSorted(acc, list[i], 1))

TokensReturn(f, list) ==
  IF f.entry = "getTokenBalances" THEN Returned(f, list)
  ELSE getENSName([f EXCEPT !.tokens = list, !.queue = << >>])

\* the for loop up to its next await: a Contract without a provider rejects
\* balanceOf at once, which the loop's try/catch absorbs
TokenLoop(f) ==
  IF f.queue = << >> \/ provider = "null"
  THEN TokensReturn(f, SortTokens(f.tokens, 1, << >>))
  ELSE [Issue(f, "balanceOf") EXCEPT
          !.queried = Append(@, Head(f.queue).contractAddress)]

TokenTxNotArrayThrows(f, resp) ==
  IF resp.kind # "json" THEN TokensReturn(f, << >>)
  ELSE IF resp.status # "1" THEN TokensReturn(f, << >>)
  ELSE IF ~resp.isArray THEN Threw(f, <<"data.result.forEach is not a function">>)
  ELSE TokenLoop([f EXCEPT !.tokens = << >>,
                           !.queue = SliceLimit(UniqueTokens(resp.result, 1, << >>))])
OnTokenTx(f, resp) ==
  IF resp.kind # "json" THEN TokensReturn(f, << >>)
  ELSE IF resp.status # "1" THEN TokensReturn(f, << >>)
  ELSE IF ~resp.isArray THEN TokensReturn(f, << >>)
  ELSE TokenLoop([f EXCEPT !.tokens = << >>,
                           !.queue = SliceLimit(UniqueTokens(resp.result, 1, << >>))])

KeepsAnyBalance(balance) == TRUE
KeepsBalance(balance) == BigIntIsPositive(balance)

BalanceFailureEndsLoop(f, ok, balance, up) ==
  LET token == Head(f.queue)
      rest  == [f EXCEPT !.queue = Tail(@)]
  IN  IF ~ok THEN TokensReturn(f, SortTokens(f.tokens, 1, << >>))
      ELSE IF KeepsBalance(balance) /\ token.decimals # NaN
      THEN TokenLoop([rest EXCEPT !.tokens = Append(@,
             [contractAddress |-> token.contractAddress,
              name |-> token.name,
              symbol |-> token.symbol,
              decimals |-> token.decimals,
              balance |-> toFixed4(parseFloat(formatUnits(balance, token.decimals)), up),
              rawBalance |-> BigIntToString(balance)])])
      ELSE TokenLoop(rest)

OnBalanceOf(f, ok, balance, up) ==
  LET token == Head(f.queue)
      rest  == [f EXCEPT !.queue = Tail(@)]
  IN  IF ok /\ KeepsBalance(balance) /\ token.decimals # NaN
      THEN TokenLoop([rest EXCEPT !.tokens = Append(@,
             [contractAddress |-> token.contractAddress,
              name |-> token.name,
              symbol |-> token.symbol,
              decimals |-> token.decimals,
              balance |-> toFixed4(parseFloat(formatUnits(balance, token.decimals)), up),
              rawBalance |-> BigIntToString(balance)])])
      ELSE TokenLoop(rest)

(***************************************************************************)
(* web3-service.js: getRecentTransactions                                  *)
(***************************************************************************)
EthSuffix == <<" ", "E", "T", "H">>

\* ethers getBigInt of a string: BigInt(value), which rejects what is no number
IsBigNumberish(str) == Len(str) > 0 /\ \A i \in 1..Len(str) : str[i] \in Digits09
StringToBigInt(str) ==
  LET t == TrimWhole(str)
  IN  [i \in 1..Len(t) |-> CHOOSE d \in 0..9 : DigitChars[d + 1] = t[i]]

FormatTransaction(tx) ==
  [hash |-> tx.hash,
   from |-> tx.from,
   to |-> IF tx.to = "" THEN "Contract Creation" ELSE tx.to,
   value |-> formatEther(StringToBigInt(tx.value)) \o EthSuffix,
   timestamp |-> parseInt(tx.timeStamp),
   blockNumber |-> tx.blockNumber,
   isError |-> (tx.isError = "1")]

TxReturn(f, list) ==
  IF f.entry = "getRecentTransactions" THEN Returned(f, list)
  ELSE Issue([f EXCEPT !.transactions = list], "tokentx")

SoftFailureThrows(f, resp) == Threw(f, <<"Etherscan API warning">>)
SoftFailure(f, resp) == TxReturn(f, << >>)

OnTxList(f, resp) ==
  IF resp.kind # "json" THEN TxReturn(f, << >>)
  ELSE IF resp.status # "1" THEN SoftFailure(f, resp)
  ELSE IF ~resp.isArray THEN TxReturn(f, << >>)
  ELSE IF \E i \in 1..Len(resp.result) : ~IsBigNumberish(resp.result[i].value)
       THEN TxReturn(f, << >>)
       ELSE TxReturn(f, [i \in 1..Len(resp.result) |-> FormatTransaction(resp.result[i])])

(***************************************************************************)
(* web3-service.js: initialize and getWalletInfo                           *)
(***************************************************************************)
hasProviderKeyOnly == alchemyKey # "null" /\ alchemyKey # ""
hasApiKeys == alchemyKey # "null" /\ alchemyKey # ""
                /\ etherscanKey # "null" /\ etherscanKey # ""

WalletInfoReturn(f, info) ==
  IF f.entry = "getWalletInfo" THEN Returned(f, info)
  ELSE Issue([f EXCEPT !.info = Some(info)], "txlist")

WalletInfoError(message) == <<"Failed to fetch wallet data: ">> \o message

OnGetNetwork(f, ok, message) ==
  IF ~ok THEN Threw(f, message)
  ELSE IF f.entry \in {"init", "initialize"} THEN Returned(f, TRUE)
  ELSE Issue(f, "getBalance")

OnGetBalance(f, ok, wei, message) ==
  IF ok THEN Issue([f EXCEPT !.wei = wei], "getTransactionCount")
  ELSE Threw(f, WalletInfoError(message))

TransactionCountFailureIgnored(f, ok, count, message) ==
  Issue([f EXCEPT !.txCount = IF ok THEN count ELSE 0], "getBlockNumber")
OnGetTransactionCount(f, ok, count, message) ==
  IF ok THEN Issue([f EXCEPT !.txCount = count], "getBlockNumber")
  ELSE Threw(f, WalletInfoError(message))

BalanceWeiFromDisplay(wei, balanceEth, up) ==
  LET shown == parseFloat(toFixed4(parseFloat(balanceEth), up))
  IN  TrimWhole(shown.whole \o shown.frac
                  \o Repeat("0", EtherDecimals - Len(shown.frac)))
BalanceWei(wei, balanceEth, up) == BigIntToString(wei)

OnGetBlockNumber(f, ok, height, message, up) ==
  IF ok
  THEN LET balanceEth == formatEther(f.wei)
       IN  WalletInfoReturn(f,
             [address |-> f.address,
              balance |-> toFixed4(parseFloat(balanceEth), up) \o EthSuffix,
              balanceWei |-> BalanceWei(f.wei, balanceEth, up),
              txCount |-> f.txCount,
              blockNumber |-> height])
  ELSE Threw(f, WalletInfoError(message))

(***************************************************************************)
(* web3-service.js: getContractInfo and getNFTInfo                         *)
(***************************************************************************)
EmptyCode == "0x"

CodeGuardMissing(code) == FALSE
CodeGuard(code) == code = EmptyCode

ContractReport(f, c) ==
  [address |-> f.address,
   name |-> IF c.ContractName = "" THEN Unknown ELSE c.ContractName,
   compiler |-> IF c.CompilerVersion = "" THEN Unknown ELSE c.CompilerVersion,
   verified |-> (c.SourceCode # "" /\ c.SourceCode # "0x"),
   abi |-> IF c.ABI # "Contract source code not verified" THEN Some(c.ABI) ELSE Null,
   sourceCode |-> IF c.SourceCode = "" THEN Null ELSE Some(c.SourceCode),
   constructorArguments |->
     IF c.ConstructorArguments = "" THEN Null ELSE Some(c.ConstructorArguments)]

OnGetCode(f, ok, code, message) ==
  IF ~ok THEN Threw(f, message)
  ELSE IF CodeGuard(code)
       THEN Threw(f, IF f.mode = "contract" THEN NotContractError
                     ELSE NotContractErrorNFT)
       ELSE Issue(f, IF f.mode = "contract" THEN "getsourcecode" ELSE "name")

NoRecordReportsUnknown(f, resp, message) ==
  IF resp.kind # "json" THEN Threw(f, message)
  ELSE IF resp.status # "1" \/ Len(resp.result) = 0
       THEN Returned(f, ContractReport(f,
              [ContractName |-> "", CompilerVersion |-> "", SourceCode |-> "",
               ABI |-> "", ConstructorArguments |-> ""]))
       ELSE Returned(f, ContractReport(f, resp.result[1]))
OnGetSourceCode(f, resp, message) ==
  IF resp.kind # "json" THEN Threw(f, message)
  ELSE IF resp.status # "1" \/ Len(resp.result) = 0 THEN Threw(f, ContractInfoError)
  ELSE Returned(f, ContractReport(f, resp.result[1]))

NameFailureThrows(f, ok, value) ==
  IF ok THEN Issue([f EXCEPT !.name = value], "symbol")
  ELSE Threw(f, <<"execution reverted">>)
OnName(f, ok, value) ==
  Issue([f EXCEPT !.name = IF ok THEN value ELSE Unknown], "symbol")

OnSymbol(f, ok, value) ==
  Issue([f EXCEPT !.symbol = IF ok THEN value ELSE Unknown], "totalSupply")

OnTotalSupply(f, ok, supply) ==
  Returned(f,
    [address |-> f.address,
     name |-> f.name,
     symbol |-> f.symbol,
     totalSupply |-> IF ok THEN BigIntToString(supply) ELSE <<Unknown>>,
     type |-> "ERC-721"])

(***************************************************************************)
(* helpers.js: escapeHTML and generateAIPrompt.  A message is a sequence   *)
(* of chunks of text in which each of & < > " ' is a chunk of its own.     *)
(***************************************************************************)
EscapeChunk(chunk) ==
  CASE chunk = "&"  -> "&amp;"
    [] chunk = "<"  -> "&lt;"
    [] chunk = ">"  -> "&gt;"
    [] chunk = "\"" -> "&quot;"
    [] chunk = "'"  -> "&#39;"
    [] OTHER        -> chunk

escapeHTML(str) == [i \in 1..Len(str) |-> EscapeChunk(str[i])]

Field(data, name) == IF name \in DOMAIN data THEN Some(data[name]) ELSE Null

\* the parts of the template that vary: the rest of the prompt is fixed text
generateAIPrompt(data, type, timestamp) ==
  [analysisType |-> type,
   generated |-> timestamp,
   target |->
     CASE type = "wallet" ->
            <<Field(data, "address"), Field(data, "balance"),
              Field(data, "txCount"), Field(data, "firstTx"),
              Field(data, "tokens"),
              IF "transactions" \in DOMAIN data
              THEN Some(SubSeq(data.transactions, 1,
                               IF Len(data.transactions) < 5
                               THEN Len(data.transactions) ELSE 5))
              ELSE Null>>
       [] type = "contract" ->
            <<Field(data, "address"), Field(data, "name"), Field(data, "verified")>>
       [] type = "nft" ->
            <<Field(data, "address"), Field(data, "name"),
              Field(data, "symbol"), Field(data, "totalSupply")>>
       [] OTHER -> << >>]

(***************************************************************************)
(* app.js: the page.  What a finished handleAnalyze or init does to the    *)
(* page and to state.currentData, in the turn in which its last awaited    *)
(* call settles.                                                           *)
(***************************************************************************)
WhiteSpace == {" ", "\n", "\t"}

RECURSIVE TrimStart(_)
TrimStart(str) ==
  IF Len(str) > 0 /\ str[1] \in WhiteSpace THEN TrimStart(Tail(str)) ELSE str

RECURSIVE TrimEnd(_)
TrimEnd(str) ==
  IF Len(str) > 0 /\ str[Len(str)] \in WhiteSpace
  THEN TrimEnd(SubSeq(str, 1, Len(str) - 1)) ELSE str

Trim(str) == TrimEnd(TrimStart(str))

EmptyInputError == <<"Please enter an Ethereum address">>
InvalidInputError ==
  <<"Invalid Ethereum address format. Must start with 0x and be 42 characters long.">>

showError(page, message) ==
  [page EXCEPT !.errorMessage = escapeHTML(message), !.error = TRUE]

displayResultsKeepsCards(page, mode, data) ==
  [page EXCEPT !.walletCard = @ \/ (mode = "wallet"),
               !.contractCard = @ \/ (mode = "contract"),
               !.nftCard = @ \/ (mode = "nft"),
               !.cardData = Some(data)]

displayResults(page, mode, data) ==
  [page EXCEPT !.walletCard = (mode = "wallet"),
               !.contractCard = (mode = "contract"),
               !.nftCard = (mode = "nft"),
               !.cardData = Some(data)]

\* the tail of handleAnalyze (and of init) once frame f has settled
PageAfter(page, f, timestamp) ==
  IF f.entry = "handleAnalyze" /\ f.status = "returned"
  THEN [displayResults(page, f.mode, f.result[1]) EXCEPT
          !.results = TRUE,
          !.prompt = Some(generateAIPrompt(f.result[1], currentAnalysisType, timestamp)),
          !.loading = FALSE]
  ELSE IF f.entry = "handleAnalyze" /\ f.status = "threw"
  THEN [showError(page, f.error) EXCEPT !.loading = FALSE]
  ELSE IF f.entry = "init" /\ f.status = "threw"
  THEN showError(page, <<"Failed to initialize: ">> \o f.error)
  ELSE page

DataClearedOnFailure(f) ==
  IF f.entry = "handleAnalyze" /\ f.status = "returned" THEN f.result
  ELSE IF f.entry = "handleAnalyze" /\ f.status = "threw" THEN Null
  ELSE currentData

DataAfter(f) ==
  IF f.entry = "handleAnalyze" /\ f.status = "returned" THEN f.result
  ELSE currentData

Answer(op, ok, value) == [op |-> op, ok |-> ok, value |-> IF ok THEN value ELSE Null]

Resume(r, f, timestamp, answer) ==
  /\ calls' = [calls EXCEPT ![r] = IF world.logging
                                   THEN [f EXCEPT !.log = Append(@, answer)]
                                   ELSE f]
  /\ ui' = PageAfter(ui, f, timestamp)
  /\ currentData' = DataAfter(f)
  /\ UNCHANGED <<provider, network, alchemyKey, etherscanKey, world,
                 currentAnalysisType, addressInput>>

Awaiting(op) == {r \in DOMAIN calls : calls[r].pc = op}

TieSides(x) == IF IsNearTie(x) THEN BOOLEAN ELSE {FALSE}

(***************************************************************************)
(* Upstream responses: one action per kind of awaited request              *)
(***************************************************************************)
GetNetworkResponse ==
  \E r \in Awaiting("getNetwork"), ok \in world.oks, e \in world.errors, t \in world.clock :
    Resume(r, OnGetNetwork(calls[r], ok, e), t, Answer("getNetwork", ok, << >>))

GetBalanceResponse ==
  \E r \in Awaiting("getBalance"), ok \in world.oks, e \in world.errors,
     wei \in world.balances, t \in world.clock :
    Resume(r, OnGetBalance(calls[r], ok, wei, e), t, Answer("getBalance", ok, wei))

GetTransactionCountResponse ==
  \E r \in Awaiting("getTransactionCount"), ok \in world.oks, e \in world.errors,
     n \in world.txCounts, t \in world.clock :
    Resume(r, OnGetTransactionCount(calls[r], ok, n, e), t,
           Answer("getTransactionCount", ok, n))

GetBlockNumberResponse ==
  \E r \in Awaiting("getBlockNumber"), ok \in world.oks, e \in world.errors,
     h \in world.blockNumbers, t \in world.clock :
    \E up \in TieSides(parseFloat(formatEther(calls[r].wei))) :
      Resume(r, OnGetBlockNumber(calls[r], ok, h, e, up), t,
             Answer("getBlockNumber", ok, h))

TxListResponse ==
  \E r \in Awaiting("txlist"), resp \in world.txlists, t \in world.clock :
    Resume(r, OnTxList(calls[r], resp), t, Answer("txlist", resp.kind = "json", resp))

TokenTxResponse ==
  \E r \in Awaiting("tokentx"), resp \in world.tokentxs, t \in world.clock :
    Resume(r, OnTokenTx(calls[r], resp), t, Answer("tokentx", resp.kind = "json", resp))

BalanceOfResponse ==
  \E r \in Awaiting("balanceOf"), t \in world.clock :
    LET token == Head(calls[r].queue)
    IN  \E out \in world.tokenBalances[token.contractAddress] :
          \E up \in IF out.ok /\ token.decimals # NaN
                    THEN TieSides(parseFloat(formatUnits(out.balance, token.decimals)))
                    ELSE {FALSE} :
            Resume(r, OnBalanceOf(calls[r], out.ok, out.balance, up), t,
                   Answer("balanceOf", out.ok, out.balance))

LookupAddressResponse ==
  \E r \in Awaiting("lookupAddress"), ok \in world.oks, n \in world.ensNames,
     t \in world.clock :
    Resume(r, OnLookupAddress(calls[r], ok, n), t, Answer("lookupAddress", ok, n))

GetCodeResponse ==
  \E r \in Awaiting("getCode"), ok \in world.oks, e \in world.errors,
     code \in world.codes, t \in world.clock :
    Resume(r, OnGetCode(calls[r], ok, code, e), t, Answer("getCode", ok, code))

GetSourceCodeResponse ==
  \E r \in Awaiting("getsourcecode"), resp \in world.sources, e \in world.errors,
     t \in world.clock :
    Resume(r, OnGetSourceCode(calls[r], resp, e), t,
           Answer("getsourcecode", resp.kind = "json", resp))

NameResponse ==
  \E r \in Awaiting("name"), ok \in world.oks, v \in world.nftNames, t \in world.clock :
    Resume(r, OnName(calls[r], ok, v), t, Answer("name", ok, v))

SymbolResponse ==
  \E r \in Awaiting("symbol"), ok \in world.oks, v \in world.nftSymbols, t \in world.clock :
    Resume(r, OnSymbol(calls[r], ok, v), t, Answer("symbol", ok, v))

TotalSupplyResponse ==
  \E r \in Awaiting("totalSupply"), ok \in world.oks, v \in world.nftSupplies,
     t \in world.clock :
    Resume(r, OnTotalSupply(calls[r], ok, v), t, Answer("totalSupply", ok, v))

(***************************************************************************)
(* Entry points                                                            *)
(***************************************************************************)
Modes == {"wallet", "contract", "nft"}

\* initialize(): the provider is assigned before the connection test is awaited
initialize(f) ==
  IF ~hasApiKeys THEN Threw(f, ConfigError) ELSE Issue(f, "getNetwork")

ProviderAfterInitialize == IF hasApiKeys THEN "rpc" ELSE provider

getWalletInfo(f) ==
  IF provider = "null" THEN initialize(f) ELSE Issue(f, "getBalance")

ProviderAfterGetWalletInfo ==
  IF provider = "null" THEN ProviderAfterInitialize ELSE provider

getRecentTransactions(f) == Issue(f, "txlist")

getTokenBalances(f) == Issue(f, "tokentx")

getCodeFirst(f) ==
  IF provider = "null" THEN Threw(f, NullProviderError("getCode"))
  ELSE Issue(f, "getCode")

\* a method of the service called directly with a valid address
Call(entry, mode, Body(_), providerAfter) ==
  /\ Len(calls) < world.callLimit
  /\ \E address \in world.addresses :
       calls' = Append(calls, Body(NewFrame(entry, address, mode)))
  /\ provider' = providerAfter
  /\ UNCHANGED <<network, alchemyKey, etherscanKey, world, currentAnalysisType,
                 currentData, addressInput, ui>>

CallInitialize == Call("initialize", "none", initialize, ProviderAfterInitialize)
CallGetWalletInfo ==
  Call("getWalletInfo", "wallet", getWalletInfo, ProviderAfterGetWalletInfo)
CallGetRecentTransactions ==
  Call("getRecentTransactions", "wallet", getRecentTransactions, provider)
CallGetTokenBalances == Call("getTokenBalances", "wallet", getTokenBalances, provider)
CallGetENSName == Call("getENSName", "wallet", getENSName, provider)
\* app.js analyzeWallet called directly: what handleAnalyze awaits in wallet mode
CallAnalyzeWallet ==
  Call("analyzeWallet", "wallet", getWalletInfo, ProviderAfterGetWalletInfo)
CallGetContractInfo == Call("getContractInfo", "contract", getCodeFirst, provider)
CallGetNFTInfo == Call("getNFTInfo", "nft", getCodeFirst, provider)

\* helpers.js isValidAddress called on the content of the input field
CallIsValidAddress ==
  /\ calls = << >>
  /\ calls' = <<Returned(NewFrame("isValidAddress", addressInput, "none"),
                         isValidAddress(addressInput))>>
  /\ UNCHANGED <<provider, network, alchemyKey, etherscanKey, world,
                 currentAnalysisType, currentData, addressInput, ui>>

\* app.js init(): install the listeners, then initialize the service
PageInit ==
  /\ ~ui.listening
  /\ \E t \in world.clock :
       LET f == initialize(NewFrame("init", << >>, "none"))
       IN  /\ calls' = Append(calls, f)
           /\ ui' = PageAfter([ui EXCEPT !.listening = TRUE], f, t)
  /\ provider' = ProviderAfterInitialize
  /\ UNCHANGED <<network, alchemyKey, etherscanKey, world, currentAnalysisType,
                 currentData, addressInput>>

handleAnalysisTypeChange ==
  /\ ui.listening
  /\ \E type \in Modes :
       /\ currentAnalysisType' = type
       /\ ui' = [ui EXCEPT !.results = FALSE, !.error = FALSE]
  /\ UNCHANGED <<provider, network, alchemyKey, etherscanKey, world, currentData,
                 addressInput, calls>>

Rejected(f) == [f EXCEPT !.status = "rejected", !.pc = "done"]

\* the user enters `input` and handleAnalyze runs up to its first await
handleAnalyze ==
  /\ ui.listening
  /\ Len(calls) < world.callLimit
  /\ \E input \in world.inputs, t \in world.clock :
       LET address == Trim(input)
           f0 == NewFrame("handleAnalyze", address, currentAnalysisType)
           f  == CASE currentAnalysisType = "wallet" -> getWalletInfo(f0)
                   [] OTHER -> getCodeFirst(f0)
       IN  /\ addressInput' = input
           /\ IF address = << >>
              THEN /\ calls' = Append(calls, Rejected(f0))
                   /\ ui' = showError(ui, EmptyInputError)
                   /\ UNCHANGED <<provider, currentData>>
              ELSE IF ~isValidAddress(address)
              THEN /\ calls' = Append(calls, Rejected(f0))
                   /\ ui' = showError(ui, InvalidInputError)
                   /\ UNCHANGED <<provider, currentData>>
              ELSE /\ calls' = Append(calls, f)
                   /\ ui' = PageAfter([ui EXCEPT !.error = FALSE, !.results = FALSE,
                                                 !.loading = TRUE], f, t)
                   /\ currentData' = DataAfter(f)
                   /\ provider' = IF currentAnalysisType = "wallet"
                                  THEN ProviderAfterGetWalletInfo ELSE provider
  /\ UNCHANGED <<network, alchemyKey, etherscanKey, world, currentAnalysisType>>

(***************************************************************************)
(* Worlds: what the upstream services may answer                           *)
(***************************************************************************)
ExampleAddress ==
  <<"0", "x", "d", "8", "d", "A", "6", "B", "F", "2", "6", "9", "6", "4",
     "a", "F", "9", "D", "7", "e", "E", "d", "9", "e", "0", "3", "E", "5",
     "3", "4", "1", "5", "D", "3", "7", "a", "A", "9", "6", "0", "4", "5">>

NetworkError == <<"could not detect network">>
Reverted == <<"execution reverted">>

Wei(whole, frac) == whole \o frac \o Repeat(0, EtherDecimals - Len(frac))

RawTx(hash, to, value, timeStamp, isError) ==
  [hash |-> hash, from |-> "0xfrom", to |-> to, value |-> value,
   timeStamp |-> timeStamp, blockNumber |-> "100", isError |-> isError]

RawTransfer(id, tokenDecimal) ==
  [contractAddress |-> id, tokenName |-> "Token", tokenSymbol |-> "TKN",
   tokenDecimal |-> tokenDecimal]

Ok(balance) == [ok |-> TRUE, balance |-> balance]
Failed == [ok |-> FALSE, balance |-> <<0>>]

SourceRecord(name, source, abi) ==
  [ContractName |-> name, CompilerVersion |-> "v0.8.20", SourceCode |-> source,
   ABI |-> abi, ConstructorArguments |-> ""]

EmptyPage ==
  [listening |-> FALSE, loading |-> FALSE, error |-> FALSE, errorMessage |-> << >>,
   results |-> FALSE, walletCard |-> FALSE, contractCard |-> FALSE,
   nftCard |-> FALSE, cardData |-> Null, prompt |-> Null]

Networks == {"mainnet", "sepolia"}
StoredKeys == {"null", "key"}

\* the state once the module has been loaded: new Web3Service() has read the
\* configuration from localStorage, nothing has been called
Constructed(w, input) ==
  /\ provider = "null"
  /\ network \in w.networks
  /\ alchemyKey \in w.storedKeys
  /\ etherscanKey \in w.storedKeys
  /\ world = w
  /\ currentAnalysisType = "wallet"
  /\ currentData = Null
  /\ addressInput = input
  /\ ui = EmptyPage
  /\ calls = << >>

\* how many analyses a behaviour of the page starts, how many calls one of the
\* service makes
MaxRequests == 2
MaxCalls == 2

SmallWorld ==
  [callLimit |-> MaxCalls,
   logging |-> TRUE,
   networks |-> Networks,
   storedKeys |-> StoredKeys,
   clock |-> {"2024-01-01T00:00:00.000Z"},
   inputs |-> {<<" ", " ">>, <<" ">> \o ExampleAddress \o <<"\n">>, <<"0", "x", "1", "2">>},
   addresses |-> {ExampleAddress},
   oks |-> BOOLEAN,
   errors |-> {NetworkError},
   balances |-> {Wei(<<1>>, <<5>>)},
   txCounts |-> {5},
   blockNumbers |-> {19000000},
   codes |-> {EmptyCode, "0x6080"},
   ensNames |-> {Null, Some("vitalik.eth")},
   txlists |-> {IndexerFailure,
                Envelope("0", TRUE, << >>),
                Envelope("1", TRUE, << >>),
                Envelope("1", FALSE, << >>),
                Envelope("1", TRUE,
                  <<RawTx("0xh2", "0xto", <<"1", "0", "0", "0">>, <<"2", "0", "0">>, "0"),
                    RawTx("0xh1", "", <<"0">>, <<"1", "0", "0">>, "1")>>)},
   tokentxs |-> {IndexerFailure,
                 Envelope("0", FALSE, << >>),
                 Envelope("1", TRUE, <<RawTransfer(1, <<"2">>), RawTransfer(1, <<"2">>)>>)},
   tokenBalances |-> [id \in {1} |-> {Failed, Ok(<<0>>), Ok(<<2, 5, 0>>)}],
   sources |-> {IndexerFailure,
                Envelope("0", FALSE, << >>),
                Envelope("1", TRUE, << >>),
                Envelope("1", TRUE, <<SourceRecord("Token", "contract Token {}", "[]")>>),
                Envelope("1", TRUE,
                  <<SourceRecord("", "", "Contract source code not verified")>>)},
   nftNames |-> {"BoredApeYachtClub"},
   nftSymbols |-> {"BAYC"},
   nftSupplies |-> {<<1, 0, 0, 0, 0>>}]

(***************************************************************************)
(* Spec: the page                                                          *)
(***************************************************************************)
Init ==
  Constructed([SmallWorld EXCEPT !.callLimit = MaxRequests + 1, !.logging = FALSE],
              << >>)

Next ==
  \/ PageInit
  \/ handleAnalysisTypeChange
  \/ handleAnalyze
  \/ GetNetworkResponse
  \/ GetBalanceResponse
  \/ GetTransactionCountResponse
  \/ GetBlockNumberResponse
  \/ TxListResponse
  \/ TokenTxResponse
  \/ BalanceOfResponse
  \/ LookupAddressResponse
  \/ GetCodeResponse
  \/ GetSourceCodeResponse
  \/ NameResponse
  \/ SymbolResponse
  \/ TotalSupplyResponse

Spec == Init /\ [][Next]_vars

(***************************************************************************)
(* SpecService: the methods of the service called directly                 *)
(***************************************************************************)
InitService == Constructed(SmallWorld, << >>)

NextService ==
  \/ CallInitialize
  \/ CallAnalyzeWallet
  \/ CallGetWalletInfo
  \/ CallGetRecentTransactions
  \/ CallGetTokenBalances
  \/ CallGetENSName
  \/ CallGetContractInfo
  \/ CallGetNFTInfo
  \/ GetNetworkResponse
  \/ GetBalanceResponse
  \/ GetTransactionCountResponse
  \/ GetBlockNumberResponse
  \/ TxListResponse
  \/ TokenTxResponse
  \/ BalanceOfResponse
  \/ LookupAddressResponse
  \/ GetCodeResponse
  \/ GetSourceCodeResponse
  \/ NameResponse
  \/ SymbolResponse
  \/ TotalSupplyResponse

SpecService == InitService /\ [][NextService]_vars

(***************************************************************************)
(* SpecContracts: getContractInfo and getNFTInfo called on a service that   *)
(* may have been initialized                                               *)
(***************************************************************************)
InitContracts == Constructed([SmallWorld EXCEPT !.callLimit = MaxCalls + 1], << >>)

NextContracts ==
  \/ CallInitialize
  \/ CallGetContractInfo
  \/ CallGetNFTInfo
  \/ GetNetworkResponse
  \/ GetCodeResponse
  \/ GetSourceCodeResponse
  \/ NameResponse
  \/ SymbolResponse
  \/ TotalSupplyResponse

SpecContracts == InitContracts /\ [][NextContracts]_vars

(***************************************************************************)
(* SpecAnalysis: analyzeWallet and getENSName called on a service that may *)
(* have been initialized                                                   *)
(***************************************************************************)
\* the indexer answers a lookup with a soft failure, an empty list or records
AnalysisWorld ==
  [SmallWorld EXCEPT
     !.txlists = {resp \in SmallWorld.txlists : resp.kind = "json" /\ resp.isArray},
     !.tokentxs = {resp \in SmallWorld.tokentxs : resp.kind = "json"},
     !.tokenBalances = [id \in {1} |-> {Failed, Ok(<<2, 5, 0>>)}]]

InitAnalysis == Constructed(AnalysisWorld, << >>)

NextAnalysis ==
  \/ CallInitialize
  \/ CallAnalyzeWallet
  \/ CallGetENSName
  \/ GetNetworkResponse
  \/ GetBalanceResponse
  \/ GetTransactionCountResponse
  \/ GetBlockNumberResponse
  \/ TxListResponse
  \/ TokenTxResponse
  \/ BalanceOfResponse
  \/ LookupAddressResponse

SpecAnalysis == InitAnalysis /\ [][NextAnalysis]_vars

(***************************************************************************)
(* SpecIndexer: getRecentTransactions and getTokenBalances called on a     *)
(* service that may have been initialized, with every kind of answer of    *)
(* the indexer                                                             *)
(***************************************************************************)
IndexerWorld ==
  [SmallWorld EXCEPT !.callLimit = MaxCalls + 1,
                     !.tokentxs = @ \cup {Envelope("1", FALSE, << >>)}]

InitIndexer == Constructed(IndexerWorld, << >>)

NextIndexer ==
  \/ CallInitialize
  \/ CallGetRecentTransactions
  \/ CallGetTokenBalances
  \/ GetNetworkResponse
  \/ TxListResponse
  \/ TokenTxResponse
  \/ BalanceOfResponse

SpecIndexer == InitIndexer /\ [][NextIndexer]_vars

(***************************************************************************)
(* SpecValidate: isValidAddress on addresses that are one edit away from   *)
(* well-formed ones                                                        *)
(***************************************************************************)
BaseAddresses ==
  {ExampleAddress} \cup {<<"0", "x">> \o Repeat(c, HexQuantifier) : c \in {"0", "f", "F"}}

ProbeChars ==
  {"0", "9", "a", "f", "A", "F", "g", "G", "z", "Z", "x", "X",
   " ", "\n", "/", ":", "@", "[", "{"}

Edits(str) ==
  {str}
    \cup {[str EXCEPT ![i] = c] : i \in 1..Len(str), c \in ProbeChars}
    \cup {SubSeq(str, 1, i) \o <<c>> \o SubSeq(str, i + 1, Len(str)) :
            i \in 0..Len(str), c \in ProbeChars}
    \cup {SubSeq(str, 1, i - 1) \o SubSeq(str, i + 1, Len(str)) : i \in 1..Len(str)}
    \cup {SubSeq(str, 1, i) : i \in 0..Len(str)}

AddressInputs == UNION {Edits(b) : b \in BaseAddresses}

QuietWorld ==
  [SmallWorld EXCEPT !.networks = {"mainnet"}, !.storedKeys = {"key"},
                     !.oks = {TRUE}, !.logging = FALSE]

InitValidate ==
  \E input \in AddressInputs : Constructed([QuietWorld EXCEPT !.callLimit = 1], input)

NextValidate == CallIsValidAddress

SpecValidate == InitValidate /\ [][NextValidate]_vars

(***************************************************************************)
(* SpecWallet: getWalletInfo on balances around every rounding case        *)
(***************************************************************************)
MaxEthDigits == 3

NormalizeBigInt(digits) ==
  IF \A i \in 1..Len(digits) : digits[i] = 0 THEN <<0>>
  ELSE LET k == CHOOSE i \in 1..Len(digits) :
                  digits[i] # 0 /\ \A j \in 1..(i - 1) : digits[j] = 0
       IN  SubSeq(digits, k, Len(digits))

WholeParts ==
  {<< >>} \cup UNION {{Repeat(9, k), <<1>> \o Repeat(0, k - 1), <<1>> \o Repeat(9, k - 1)} :
                        k \in 1..MaxEthDigits}

KeptParts == {<<a, b, c, d>> : a \in {0, 5, 9}, b \in {0, 9}, c \in {0, 9}, d \in {0, 9}}

DroppedParts ==
  {<<e>> \o tail :
     e \in {0, 4, 5, 6, 9},
     tail \in {Repeat(0, 13), Repeat(0, 12) \o <<1>>, Repeat(9, 13),
               <<0, 0, 0, 0, 1>> \o Repeat(0, 8), <<9, 9, 9, 9, 8>> \o Repeat(9, 8)}}

WeiInputs ==
  {NormalizeBigInt(w \o k \o d) : w \in WholeParts, k \in KeptParts, d \in DroppedParts}

InitWallet ==
  \E wei \in WeiInputs :
    Constructed([QuietWorld EXCEPT !.callLimit = 1, !.balances = {wei}], << >>)

NextWallet ==
  \/ CallGetWalletInfo
  \/ GetNetworkResponse
  \/ GetBalanceResponse
  \/ GetTransactionCountResponse
  \/ GetBlockNumberResponse

SpecWallet == InitWallet /\ [][NextWallet]_vars

(***************************************************************************)
(* SpecTokens: getTokenBalances on transfer lists of up to MaxTokens       *)
(* distinct token contracts                                                *)
(***************************************************************************)
MaxTokens == 12
FreeTokens == 3

DecimalsOf(id) ==
  CASE id = 1 -> <<"1", "8">>
    [] id = 3 -> <<"2">>
    [] OTHER  -> <<"0">>

DistinctTransfers(n) == [i \in 1..n |-> RawTransfer(i, DecimalsOf(i))]

\* every transfer followed by another transfer of the first token
RepeatedTransfers(n) ==
  [i \in 1..(2 * n) |->
     IF i % 2 = 1 THEN RawTransfer((i + 1) \div 2, DecimalsOf((i + 1) \div 2))
     ELSE RawTransfer(1, DecimalsOf(1))]

\* the second token's record carries no decimals
UndecodableTransfers(n) ==
  [i \in 1..n |-> RawTransfer(i, IF i = 2 THEN << >> ELSE DecimalsOf(i))]

TransferLists ==
  UNION {{DistinctTransfers(n), RepeatedTransfers(n), UndecodableTransfers(n)} :
           n \in 0..MaxTokens}

TokenOutcomes ==
  [id \in 1..MaxTokens |->
     IF id <= FreeTokens
     THEN {Failed, Ok(<<0>>), Ok(<<1>>), Ok(<<7>>), Ok(Wei(<<7>>, << >>))}
     ELSE {Ok(<<3>>)}]

InitTokens ==
  \E list \in TransferLists :
    Constructed([QuietWorld EXCEPT !.callLimit = 2,
                                   !.tokentxs = {Envelope("1", TRUE, list)},
                                   !.tokenBalances = TokenOutcomes], << >>)

NextTokens ==
  \/ CallInitialize
  \/ CallGetTokenBalances
  \/ GetNetworkResponse
  \/ TokenTxResponse
  \/ BalanceOfResponse

SpecTokens == InitTokens /\ [][NextTokens]_vars

(***************************************************************************)
(* SpecHistory: analyzeWallet on transaction lists of up to MaxHistory     *)
(* records, newest first as the lookup asks (sort=desc)                    *)
(***************************************************************************)
MaxHistory == 3

TimeStamps == {<<"1", "0", "0">>, <<"2", "0", "0">>, <<"3", "0", "0">>}

Histories ==
  UNION {{h \in [1..n -> TimeStamps] :
            \A i \in 1..(n - 1) : parseInt(h[i]) >= parseInt(h[i + 1])} :
         n \in 0..MaxHistory}

HistoryRecords(h) ==
  [i \in 1..Len(h) |-> RawTx("0xh", "0xto", <<"1", "0", "0", "0">>, h[i], "0")]

InitHistory ==
  \E h \in Histories :
    Constructed([QuietWorld EXCEPT !.callLimit = 1,
                                   !.txlists = {Envelope("1", TRUE, HistoryRecords(h))}],
                << >>)

NextHistory ==
  \/ CallAnalyzeWallet
  \/ GetNetworkResponse
  \/ GetBalanceResponse
  \/ GetTransactionCountResponse
  \/ GetBlockNumberResponse
  \/ TxListResponse
  \/ TokenTxResponse
  \/ BalanceOfResponse
  \/ LookupAddressResponse

SpecHistory == InitHistory /\ [][NextHistory]_vars

(***************************************************************************)
(* SpecPage: the page on mainnet; each lookup of the indexer is answered   *)
(* with a soft failure or with records                                     *)
(***************************************************************************)
PageWorld ==
  [AnalysisWorld EXCEPT
     !.callLimit = MaxRequests + 1,
     !.networks = {"mainnet"},
     !.txlists = {resp \in SmallWorld.txlists :
                    resp.kind = "json" /\ (resp.status = "0" \/ Len(resp.result) > 0)},
     !.tokenBalances = [id \in {1} |-> {Ok(<<2, 5, 0>>)}],
     !.sources = {resp \in SmallWorld.sources :
                    resp.kind = "json" /\ (resp.status = "0" \/ Len(resp.result) > 0)}]

InitPage == Constructed(PageWorld, << >>)

SpecPage == InitPage /\ [][Next]_vars

(***************************************************************************)
(* SpecBalances: getTokenBalances on up to MaxQueried token contracts of   *)
(* which every balanceOf call may fail, return zero or a positive balance  *)
(***************************************************************************)
MaxQueried == 3

BalanceOutcomes ==
  [id \in 1..MaxTokens |-> {Failed, Ok(<<0>>), Ok(<<7>>)}]

InitBalances ==
  \E n \in 0..MaxQueried : \E list \in {DistinctTransfers(n), UndecodableTransfers(n)} :
    Constructed([QuietWorld EXCEPT !.callLimit = 2,
                                   !.logging = TRUE,
                                   !.tokentxs = {Envelope("1", TRUE, list)},
                                   !.tokenBalances = BalanceOutcomes], << >>)

NextBalances ==
  \/ CallInitialize
  \/ CallGetTokenBalances
  \/ GetNetworkResponse
  \/ TokenTxResponse
  \/ BalanceOfResponse

SpecBalances == InitBalances /\ [][NextBalances]_vars

(***************************************************************************)
(* The static file server.  A URL          is a sequence of chunks of    *)
(* text in which each "/" and each "." is a chunk of its own.  A request   *)
(* is a frame of `calls`; what fs.readFile finds is world.files.           *)
(***************************************************************************)
includes(str, sub) ==
  \E i \in 1..(Len(str) - Len(sub) + 1) : SubSeq(str, i, i + Len(sub) - 1) = sub

startsWith(str, prefix) ==
  Len(str) >= Len(prefix) /\ SubSeq(str, 1, Len(prefix)) = prefix

toLowerCase(chunk) ==
  CASE chunk = "JS" -> "js" [] chunk = "HTML" -> "html" [] OTHER -> chunk

\* path.extname: from the last "." of the last segment, unless the segment
\* starts with it
extname(path) ==
  LET slashes == {i \in 1..Len(path) : path[i] = "/"}
      base    == IF slashes = {} THEN 1
                 ELSE 1 + CHOOSE i \in slashes : \A j \in slashes : j <= i
      dots    == {i \in (base + 1)..Len(path) : path[i] = "."}
  IN  IF dots = {} THEN << >>
      ELSE SubSeq(path, CHOOSE i \in dots : \A j \in dots : j <= i, Len(path))

MIME_TYPES(ext) ==
  CASE ext = <<".", "html">> -> "text/html"
    [] ext = <<".", "css">>  -> "text/css"
    [] ext = <<".", "js">>   -> "application/javascript"
    [] ext = <<".", "json">> -> "application/json"
    [] ext = <<".", "png">>  -> "image/png"
    [] ext = <<".", "jpg">>  -> "image/jpeg"
    [] ext = <<".", "jpeg">> -> "image/jpeg"
    [] ext = <<".", "gif">>  -> "image/gif"
    [] ext = <<".", "svg">>  -> "image/svg+xml"
    [] ext = <<".", "ico">>  -> "image/x-icon"
    [] OTHER -> "application/octet-stream"

Dirname == <<"__dirname">>

fullPathOf(filePath) ==
  IF startsWith(filePath, <<"/", "config", "/">>) THEN Dirname \o filePath
  ELSE Dirname \o <<"/", "src">> \o filePath

\* res.writeHead(code, type); res.end(body)
Respond(f, code, type, body) ==
  [f EXCEPT !.pc = "done", !.status = "returned",
            !.responses = Append(@, [code |-> code, type |-> type, body |-> body])]

\* the request handler up to the call of fs.readFile
handleRequest(url) ==
  LET filePath == IF url = <<"/">> THEN <<"/", "index", ".", "html">> ELSE url
      f == [entry |-> "request", url |-> url, pc |-> "start", status |-> "running",
            fullPath |-> << >>, contentType |-> "", reads |-> << >>,
            found |-> Null, responses |-> << >>]
  IN  IF includes(filePath, <<".", ".">>)
      THEN Respond(f, 403, "text/plain", "403 Forbidden")
      ELSE [f EXCEPT !.pc = "readFile",
                     !.fullPath = fullPathOf(filePath),
                     !.reads = <<fullPathOf(filePath)>>,
                     !.contentType =
                       MIME_TYPES([i \in 1..Len(extname(fullPathOf(filePath))) |->
                                     toLowerCase(extname(fullPathOf(filePath))[i])])]

AnyErrorNotFound(f, err, data) ==
  IF err # "" THEN Respond(f, 404, "text/html", "<h1>404 - File Not Found</h1>")
  ELSE Respond(f, 200, f.contentType, data)

\* the callback of fs.readFile
OnReadFile(f, err, data) ==
  IF err # ""
  THEN IF err = "ENOENT"
       THEN Respond(f, 404, "text/html", "<h1>404 - File Not Found</h1>")
       ELSE Respond(f, 500, "text/html", "<h1>500 - Internal Server Error</h1>")
  ELSE Respond(f, 200, f.contentType, data)

ServerRequest ==
  /\ Len(calls) < world.callLimit
  /\ \E url \in world.urls : calls' = Append(calls, handleRequest(url))
  /\ UNCHANGED <<provider, network, alchemyKey, etherscanKey, world,
                 currentAnalysisType, currentData, addressInput, ui>>

ReadFileCallback ==
  /\ \E r \in Awaiting("readFile") : \E out \in world.files[calls[r].fullPath] :
       calls' = [calls EXCEPT ![r] =
                   OnReadFile([calls[r] EXCEPT !.found = Some(out)], out.err, out.data)]
  /\ UNCHANGED <<provider, network, alchemyKey, etherscanKey, world,
                 currentAnalysisType, currentData, addressInput, ui>>

(***************************************************************************)
(* SpecServer: up to MaxServerRequests requests, answered in any order     *)
(***************************************************************************)
MaxServerRequests == 2

Urls ==
  {<<"/">>,
   <<"/", "js", "/", "app", ".", "js">>,
   <<"/", "APP", ".", "JS">>,
   <<"/", "config", "/", "api-keys", ".", "js">>,
   <<"/", "missing", ".", "css">>,
   <<"/", "js">>,
   <<"/", "logo", ".", "png">>,
   <<"/", ".", "env">>,
   <<"/", ".", ".", "/", "server", ".", "js">>,
   <<"/", "js", "/", ".", ".", "/", ".", ".", "/", "package", ".", "json">>,
   <<"/", "a", ".", ".", "b">>,
   <<"/", "%2e%2e", "/", "server", ".", "js">>}

FileData(data) == [err |-> "", data |-> data]
ReadError(code) == [err |-> code, data |-> ""]

\* what fs.readFile may find at the path of a request
Files ==
  [path \in {fullPathOf(IF url = <<"/">> THEN <<"/", "index", ".", "html">> ELSE url) :
              url \in Urls} |->
     CASE path = Dirname \o <<"/", "src", "/", "index", ".", "html">> ->
            {FileData("<html>"), ReadError("EMFILE")}
       [] path = Dirname \o <<"/", "src", "/", "js", "/", "app", ".", "js">> ->
            {FileData("import"), ReadError("ENOENT")}
       [] path = Dirname \o <<"/", "src", "/", "APP", ".", "JS">> -> {FileData("import")}
       [] path = Dirname \o <<"/", "config", "/", "api-keys", ".", "js">> ->
            {FileData("export"), ReadError("ENOENT")}
       [] path = Dirname \o <<"/", "src", "/", "js">> -> {ReadError("EISDIR")}
       [] path = Dirname \o <<"/", "src", "/", "logo", ".", "png">> ->
            {ReadError("EACCES")}
       [] path = Dirname \o <<"/", "src", "/", ".", "env">> -> {FileData("KEY")}
       [] OTHER -> {ReadError("ENOENT")}]

ServerWorld ==
  [urls |-> Urls, files |-> Files] @@ [QuietWorld EXCEPT !.callLimit = MaxServerRequests]

InitServer == Constructed(ServerWorld, << >>)

NextServer == ServerRequest \/ ReadFileCallback

SpecServer == InitServer /\ [][NextServer]_vars

(***************************************************************************)
(* Properties                                                              *)
(***************************************************************************)
HexCharacters ==
  {"0", "1", "2", "3", "4", "5", "6", "7", "8", "9",
   "a", "b", "c", "d", "e", "f", "A", "B", "C", "D", "E", "F"}

DecimalCharacters == {"0", "1", "2", "3", "4", "5", "6", "7", "8", "9"}

WellFormedAddress(s) ==
  /\ Len(s) = 42
  /\ s[1] = "0"
  /\ s[2] = "x"
  /\ \A i \in 3..42 : s[i] \in HexCharacters

\* C1: isValidAddress(s) is true exactly when s is "0x" followed by exactly 40
\* characters of [0-9a-fA-F], 42 characters in all with nothing before or
\* after; it is false for every other string.
C1_ValidExactlyWellFormed ==
  \A r \in DOMAIN calls :
    calls[r].entry = "isValidAddress"
      => calls[r].result = Some(WellFormedAddress(calls[r].address))

C1_Witness ==
  \E r \in DOMAIN calls :
    /\ calls[r].entry = "isValidAddress"
    /\ calls[r].address = ExampleAddress
    /\ calls[r].result = Some(TRUE)

HasAnswer(f, op) == \E i \in 1..Len(f.log) : f.log[i].op = op
AnswerTo(f, op) == f.log[CHOOSE i \in 1..Len(f.log) : f.log[i].op = op]

EmptyCodeAnswered(f) ==
  HasAnswer(f, "getCode") /\ AnswerTo(f, "getCode").ok
    /\ AnswerTo(f, "getCode").value = "0x"

EndedNotAContract(f) ==
  /\ f.status = "threw"
  /\ f.error = IF f.mode = "contract"
               THEN <<"This address is not a smart contract (no code deployed)">>
               ELSE <<"This address is not a smart contract">>
  /\ f.result = Null
  /\ f.issued = {"getCode"}

\* C2: when the provider answers getCode with the empty code "0x", an analysis
\* in contract mode (getContractInfo) and one in nft mode (getNFTInfo) ends in
\* the "not a smart contract" error: no report is returned, and no indexer
\* request and no name, symbol or totalSupply call is issued.
C2_EmptyCodeIsFatal ==
  \A r \in DOMAIN calls :
    (calls[r].mode \in {"contract", "nft"} /\ EmptyCodeAnswered(calls[r]))
      => EndedNotAContract(calls[r])

C2_Witness ==
  \E r1, r2 \in DOMAIN calls :
    /\ calls[r1].entry = "getContractInfo" /\ EmptyCodeAnswered(calls[r1])
    /\ calls[r1].status = "threw"
    /\ calls[r2].entry = "getNFTInfo" /\ EmptyCodeAnswered(calls[r2])
    /\ calls[r2].status = "threw"

IsWalletAnalysis(f) == f.entry \in {"analyzeWallet", "handleAnalyze"} /\ f.mode = "wallet"

SoftFailureAnswered(f) ==
  HasAnswer(f, "txlist") /\ AnswerTo(f, "txlist").ok
    /\ AnswerTo(f, "txlist").value.status # "1"

ZeroTransactionsAnswered(f) ==
  HasAnswer(f, "txlist") /\ AnswerTo(f, "txlist").ok
    /\ AnswerTo(f, "txlist").value.status = "1"
    /\ AnswerTo(f, "txlist").value.isArray
    /\ AnswerTo(f, "txlist").value.result = << >>

\* C3: in wallet mode, once balance, transaction count and block height have
\* been read and the indexer has answered the transaction lookup with a soft
\* failure (a status other than "1") or with no transactions, analyzeWallet
\* never throws, and the report it returns has transactions = [] and
\* firstTx = null.
C3_SoftFailureStillReports ==
  \A r \in DOMAIN calls :
    LET f == calls[r]
    IN  (IsWalletAnalysis(f) /\ (SoftFailureAnswered(f) \/ ZeroTransactionsAnswered(f)))
          => /\ f.info # Null
             /\ f.status # "threw"
             /\ f.transactions = << >>
             /\ f.status = "returned"
                  => /\ f.result[1].transactions = << >>
                     /\ f.result[1].firstTx = Null
                     /\ f.result[1].balance = f.info[1].balance
                     /\ f.result[1].txCount = f.info[1].txCount

C3_Witness ==
  \E r1, r2 \in DOMAIN calls :
    /\ calls[r1].entry = "analyzeWallet" /\ SoftFailureAnswered(calls[r1])
    /\ calls[r1].status = "returned"
    /\ calls[r1].result[1].balance = <<"1", ".", "5", "0", "0", "0", " ", "E", "T", "H">>
    /\ calls[r1].result[1].firstTx = Null
    /\ calls[r2].entry = "analyzeWallet" /\ ZeroTransactionsAnswered(calls[r2])
    /\ calls[r2].status = "returned"
    /\ calls[r2].result[1].transactions = << >>

Holdings ==
  {calls[r].result[1] : r \in {q \in DOMAIN calls :
      calls[q].entry = "getTokenBalances" /\ calls[q].status = "returned"}}

\* C4 as claimed: every holding returned by getTokenBalances has a `balance`
\* field, the 4-decimal display value, strictly greater than zero.
C4_DisplayBalancePositive ==
  \A list \in Holdings : \A i \in 1..Len(list) :
    \E k \in 1..Len(list[i].balance) :
      list[i].balance[k] \in {"1", "2", "3", "4", "5", "6", "7", "8", "9"}

\* C4 as amended: every holding returned by getTokenBalances has a rawBalance,
\* the integer balanceOf returned, strictly greater than zero, whatever the
\* transfer records and the outcomes of the balanceOf calls; its 4-decimal
\* display value may round to "0.0000".
C4_RawBalancePositive ==
  \A list \in Holdings : \A i \in 1..Len(list) :
    /\ Len(list[i].rawBalance) > 0
    /\ \A k \in 1..Len(list[i].rawBalance) :
         list[i].rawBalance[k] \in DecimalCharacters
    /\ \E k \in 1..Len(list[i].rawBalance) : list[i].rawBalance[k] # "0"

C4_Witness ==
  \E list \in Holdings : \E i \in 1..Len(list) :
    /\ list[i].balance = <<"0", ".", "0", "0", "0", "0">>
    /\ list[i].rawBalance = <<"7">>

DigitValue(c) ==
  CASE c = "1" -> 1 [] c = "2" -> 2 [] c = "3" -> 3 [] c = "4" -> 4 [] c = "5" -> 5
    [] c = "6" -> 6 [] c = "7" -> 7 [] c = "8" -> 8 [] c = "9" -> 9 [] OTHER -> 0

\* a < b for two display values of the form digits.dddd
DisplayLess(a, b) ==
  \/ Len(a) < Len(b)
  \/ /\ Len(a) = Len(b)
     /\ \E k \in 1..Len(a) :
          /\ \A j \in 1..(k - 1) : a[j] = b[j]
          /\ DigitValue(a[k]) < DigitValue(b[k])

\* C5 as claimed: the list returned by getTokenBalances is sorted strictly
\* descending by decimal balance: of two adjacent entries the earlier one's
\* balance is strictly greater than the later one's.
C5_StrictlyDescending ==
  \A list \in Holdings : \A i \in 1..(Len(list) - 1) :
    DisplayLess(list[i + 1].balance, list[i].balance)

\* C5 as amended: the list returned by getTokenBalances is sorted descending
\* by decimal balance: of two adjacent entries the earlier one's balance is
\* never smaller than the later one's; entries of equal balance stand side
\* by side.
C5_Descending ==
  \A list \in Holdings : \A i \in 1..(Len(list) - 1) :
    ~DisplayLess(list[i].balance, list[i + 1].balance)

C5_Witness ==
  \E list \in Holdings : \E i, j \in 1..(Len(list) - 1) :
    /\ list[i].balance = list[i + 1].balance
    /\ list[i].contractAddress # list[i + 1].contractAddress
    /\ DisplayLess(list[j + 1].balance, list[j].balance)

\* C6: the list returned by getTokenBalances never has more than 10 entries,
\* however many transfer records and distinct token contracts the indexer
\* returns.
C6_AtMostTenHoldings ==
  \A list \in Holdings : Len(list) <= 10

C6_Witness ==
  /\ \E list \in Holdings : Len(list) = 10
  /\ \E resp \in world.tokentxs :
       Cardinality({resp.result[i].contractAddress : i \in 1..Len(resp.result)}) > 10

DecimalText(v) ==
  [i \in 1..Len(v) |->
     CASE v[i] = 0 -> "0" [] v[i] = 1 -> "1" [] v[i] = 2 -> "2" [] v[i] = 3 -> "3"
       [] v[i] = 4 -> "4" [] v[i] = 5 -> "5" [] v[i] = 6 -> "6" [] v[i] = 7 -> "7"
       [] v[i] = 8 -> "8" [] v[i] = 9 -> "9"]

\* the digits of floor(w / 10^14), and the 14 digits that division drops
TenThousandths(w) == IF Len(w) > 14 THEN SubSeq(w, 1, Len(w) - 14) ELSE <<0>>
Dropped(w) ==
  LET padded == [i \in 1..14 |-> 0] \o w
  IN  SubSeq(padded, Len(padded) - 13, Len(padded))

\* b = a + 1 for two numbers given by their digits
IsSuccessor(a, b) ==
  LET n  == (IF Len(a) > Len(b) THEN Len(a) ELSE Len(b)) + 1
      pa == [i \in 1..(n - Len(a)) |-> 0] \o a
      pb == [i \in 1..(n - Len(b)) |-> 0] \o b
  IN  \E k \in 1..n :
        /\ \A j \in 1..(k - 1) : pa[j] = pb[j]
        /\ pb[k] = pa[k] + 1
        /\ \A j \in (k + 1)..n : pa[j] = 9 /\ pb[j] = 0

\* the dropped digits lie within 10^-10 ETH of the half that decides rounding
AtRoundingHalf(rest) ==
  \/ SubSeq(rest, 1, 6) = <<5, 0, 0, 0, 0, 0>>
  \/ SubSeq(rest, 1, 6) = <<4, 9, 9, 9, 9, 9>>

\* the digits of a display value "D.FFFF ETH", the point and the unit removed
ShownTenThousandths(balance) ==
  LET n == Len(balance)
      text == SubSeq(balance, 1, n - 9) \o SubSeq(balance, n - 7, n - 4)
  IN  [i \in 1..Len(text) |-> DigitValue(text[i])]

Rendered(w, balance) ==
  LET n == Len(balance)
  IN  /\ n >= 10
      /\ SubSeq(balance, n - 3, n) = <<" ", "E", "T", "H">>
      /\ balance[n - 8] = "."
      /\ \A i \in (1..(n - 4)) \ {n - 8} : balance[i] \in DecimalCharacters
      /\ (n > 10 => balance[1] # "0")
      /\ LET shown == ShownTenThousandths(balance)
             exact == TenThousandths(w)
             rest  == Dropped(w)
         IN  /\ NormalizeBigInt(shown) = exact \/ IsSuccessor(exact, NormalizeBigInt(shown))
             /\ ~AtRoundingHalf(rest)
                  => (IsSuccessor(exact, NormalizeBigInt(shown)) <=> rest[1] >= 5)

\* C8: for every integer w of wei that getBalance returns, the report of
\* getWalletInfo has balanceWei equal to the decimal string of w, unchanged by
\* the rounding of the display value, and balance equal to w / 10^18 rendered
\* with exactly four decimals (to the nearest, either way at a rounding half)
\* followed by " ETH"; 1500000000000000000 gives "1.5000 ETH".
C8_BalanceNormalized ==
  \A r \in DOMAIN calls :
    LET f == calls[r]
    IN  (f.entry = "getWalletInfo" /\ f.status = "returned")
          => /\ f.result[1].balanceWei = DecimalText(f.wei)
             /\ Rendered(f.wei, f.result[1].balance)

C8_Witness ==
  \E r \in DOMAIN calls :
    /\ calls[r].entry = "getWalletInfo"
    /\ calls[r].status = "returned"
    /\ calls[r].wei = <<1, 5, 0, 0, 0, 0, 0, 0, 0, 0, 0, 0, 0, 0, 0, 0, 0, 0, 0>>
    /\ calls[r].result[1].balance = <<"1", ".", "5", "0", "0", "0", " ", "E", "T", "H">>
    /\ calls[r].result[1].balanceWei =
         <<"1", "5", "0", "0", "0", "0", "0", "0", "0", "0", "0", "0", "0", "0",
           "0", "0", "0", "0", "0">>

\* C9: when the configured network is not "mainnet", getENSName never issues
\* a reverse lookup (lookupAddress) to the provider and always returns null,
\* whether or not the provider has been initialised.
C9_NoLookupOffMainnet ==
  network # "mainnet" =>
    \A r \in DOMAIN calls :
      /\ "lookupAddress" \notin calls[r].issued
      /\ calls[r].pc # "lookupAddress"
      /\ calls[r].entry = "getENSName"
           => calls[r].status = "returned" /\ calls[r].result = Some(Null)
      /\ (calls[r].entry = "analyzeWallet" /\ calls[r].status = "returned")
           => calls[r].result[1].ensName = Null

C9_Witness ==
  /\ network = "sepolia"
  /\ provider = "rpc"
  /\ \E r1, r2 \in DOMAIN calls :
       /\ r1 < r2
       /\ calls[r1].entry = "initialize" /\ calls[r1].status = "returned"
       /\ calls[r2].entry = "getENSName" /\ calls[r2].result = Some(Null)

CodeAnswered(f) ==
  HasAnswer(f, "getCode") /\ AnswerTo(f, "getCode").ok
    /\ AnswerTo(f, "getCode").value # "0x"

\* C10: in nft mode on an address with non-empty code, name, symbol and
\* totalSupply are independent: whichever of them fail, getNFTInfo issues all
\* three and returns a report, never throws; exactly the failing fields hold
\* "Unknown" and every other field holds what its call returned, totalSupply
\* as a decimal string.
C10_IndependentFields ==
  \A r \in DOMAIN calls :
    LET f == calls[r]
    IN  (f.mode = "nft" /\ CodeAnswered(f))
          => /\ f.status # "threw"
             /\ f.status = "returned"
                  => LET name   == AnswerTo(f, "name")
                         symbol == AnswerTo(f, "symbol")
                         supply == AnswerTo(f, "totalSupply")
                     IN  /\ f.issued = {"getCode", "name", "symbol", "totalSupply"}
                         /\ f.result[1].name = IF name.ok THEN name.value ELSE "Unknown"
                         /\ f.result[1].symbol =
                              IF symbol.ok THEN symbol.value ELSE "Unknown"
                         /\ f.result[1].totalSupply =
                              IF supply.ok THEN DecimalText(supply.value)
                              ELSE <<"Unknown">>

C10_Witness ==
  \E r \in DOMAIN calls :
    /\ calls[r].entry = "getNFTInfo"
    /\ calls[r].status = "returned"
    /\ AnswerTo(calls[r], "name").ok
    /\ ~AnswerTo(calls[r], "symbol").ok
    /\ ~AnswerTo(calls[r], "totalSupply").ok
    /\ calls[r].result[1].name = "BoredApeYachtClub"
    /\ calls[r].result[1].symbol = "Unknown"
    /\ calls[r].result[1].totalSupply = <<"Unknown">>

\* the indexer's answer is no data: the transport or the decoding failed, the
\* status is not "1", or the result is not an array
NoData(answer) ==
  \/ ~answer.ok
  \/ answer.value.status # "1"
  \/ ~answer.value.isArray

\* C12: getRecentTransactions and getTokenBalances never throw; whenever the
\* indexer's answer is a transport failure, an undecodable body, a status
\* other than "1", or a status "1" with a result that is not an array, they
\* return the empty list.
C12_IndexerFailuresAreEmpty ==
  \A r \in DOMAIN calls :
    LET f == calls[r]
    IN  /\ f.entry \in {"getRecentTransactions", "getTokenBalances"}
             => f.status # "threw"
        /\ (f.entry = "getRecentTransactions" /\ HasAnswer(f, "txlist")
               /\ NoData(AnswerTo(f, "txlist")))
             => f.status = "returned" /\ f.result = Some(<< >>)
        /\ (f.entry = "getTokenBalances" /\ HasAnswer(f, "tokentx")
               /\ NoData(AnswerTo(f, "tokentx")))
             => f.status = "returned" /\ f.result = Some(<< >>)
                  /\ "balanceOf" \notin f.issued

C12_Witness ==
  \E r1, r2 \in DOMAIN calls :
    /\ calls[r1].entry = "getRecentTransactions"
    /\ HasAnswer(calls[r1], "txlist") /\ ~AnswerTo(calls[r1], "txlist").ok
    /\ calls[r1].result = Some(<< >>)
    /\ calls[r2].entry = "getTokenBalances"
    /\ HasAnswer(calls[r2], "tokentx") /\ AnswerTo(calls[r2], "tokentx").ok
    /\ AnswerTo(calls[r2], "tokentx").value.status = "1"
    /\ ~AnswerTo(calls[r2], "tokentx").value.isArray
    /\ calls[r2].result = Some(<< >>)

ChainStateReads == {"getBalance", "getTransactionCount", "getBlockNumber"}

ChainStateFailed(f) ==
  \E i \in 1..Len(f.log) : f.log[i].op \in ChainStateReads /\ ~f.log[i].ok

\* C13: in wallet mode, if the read of the balance, of the transaction count
\* or of the block height fails, getWalletInfo throws, analyzeWallet returns
\* no report, and that analysis issues neither the transaction lookup nor
\* the token lookup nor the name lookup.
C13_ChainStateIsFatal ==
  \A r \in DOMAIN calls :
    LET f == calls[r]
    IN  (f.entry \in {"analyzeWallet", "getWalletInfo"} /\ ChainStateFailed(f))
          => /\ f.status = "threw"
             /\ f.error = <<"Failed to fetch wallet data: ", "could not detect network">>
             /\ f.result = Null
             /\ f.issued \subseteq {"getNetwork"} \cup ChainStateReads

C13_Witness ==
  \E r1, r2 \in DOMAIN calls :
    /\ calls[r1].entry = "analyzeWallet" /\ calls[r1].status = "threw"
    /\ HasAnswer(calls[r1], "getBalance") /\ AnswerTo(calls[r1], "getBalance").ok
    /\ HasAnswer(calls[r1], "getTransactionCount")
    /\ ~AnswerTo(calls[r1], "getTransactionCount").ok
    /\ calls[r2].entry = "analyzeWallet" /\ calls[r2].status = "threw"
    /\ HasAnswer(calls[r2], "getBlockNumber")
    /\ ~AnswerTo(calls[r2], "getBlockNumber").ok

NoRecordAnswered(f) ==
  /\ HasAnswer(f, "getsourcecode")
  /\ AnswerTo(f, "getsourcecode").ok
  /\ \/ AnswerTo(f, "getsourcecode").value.status # "1"
     \/ AnswerTo(f, "getsourcecode").value.result = << >>

\* C14: in contract mode on an address with non-empty code, when the indexer
\* has no record for the address (a status other than "1", or an empty
\* result list), getContractInfo throws "Failed to fetch contract
\* information" and returns no report, not even a partly filled one.
C14_NoRecordIsFatal ==
  \A r \in DOMAIN calls :
    LET f == calls[r]
    IN  (f.mode = "contract" /\ CodeAnswered(f) /\ NoRecordAnswered(f))
          => /\ f.status = "threw"
             /\ f.error = <<"Failed to fetch contract information">>
             /\ f.result = Null

C14_Witness ==
  \E r1, r2 \in DOMAIN calls :
    /\ calls[r1].entry = "getContractInfo" /\ CodeAnswered(calls[r1])
    /\ NoRecordAnswered(calls[r1])
    /\ AnswerTo(calls[r1], "getsourcecode").value.status = "0"
    /\ calls[r1].status = "threw"
    /\ calls[r2].entry = "getContractInfo" /\ CodeAnswered(calls[r2])
    /\ NoRecordAnswered(calls[r2])
    /\ AnswerTo(calls[r2], "getsourcecode").value.status = "1"
    /\ calls[r2].status = "threw"

Reports ==
  {calls[r].result[1] : r \in {q \in DOMAIN calls :
      calls[q].entry = "analyzeWallet" /\ calls[q].status = "returned"}}

KeyAbsent == alchemyKey = "null" \/ etherscanKey = "null"

ConfigurationMessage == <<"Please configure your API keys in Settings (button)">>

\* C11: when the provider key or the indexer key is absent from the
\* configuration, initialize fails with the configuration error, the provider
\* is never created, and no analysis in wallet, contract or nft mode issues a
\* request to the provider or the indexer or produces a report.
C11_RefusesWithoutKeys ==
  KeyAbsent =>
    /\ provider = "null"
    /\ currentData = Null
    /\ ~ui.results
    /\ ui.cardData = Null
    /\ \A r \in DOMAIN calls :
         /\ calls[r].issued = {}
         /\ calls[r].result = Null
         /\ calls[r].status \in {"threw", "rejected"}
         /\ calls[r].entry = "init" => calls[r].error = ConfigurationMessage
         /\ (calls[r].mode = "wallet" /\ calls[r].status = "threw")
              => calls[r].error = ConfigurationMessage

C11_Witness ==
  /\ alchemyKey = "key"
  /\ etherscanKey = "null"
  /\ \E r1, r2, r3 \in DOMAIN calls :
       /\ calls[r1].entry = "init" /\ calls[r1].status = "threw"
       /\ calls[r2].entry = "handleAnalyze" /\ calls[r2].mode = "wallet"
       /\ calls[r2].status = "threw"
       /\ calls[r3].entry = "handleAnalyze" /\ calls[r3].mode = "nft"
       /\ calls[r3].status = "threw"

IsAnswerOf(op, a) == a.op = op

BalanceAnswers(f) == SelectSeq(f.log, LAMBDA a : IsAnswerOf("balanceOf", a))

\* the token contracts of which balanceOf returned a positive balance
Held(f) ==
  {f.queried[i] : i \in {j \in 1..Len(BalanceAnswers(f)) :
      /\ BalanceAnswers(f)[j].ok
      /\ \E k \in 1..Len(BalanceAnswers(f)[j].value) :
           BalanceAnswers(f)[j].value[k] > 0}}

Degraded(f, report) ==
  LET txlist  == AnswerTo(f, "txlist")
      tokentx == AnswerTo(f, "tokentx")
  IN  /\ report.balance = f.info[1].balance
      /\ report.txCount = f.info[1].txCount
      /\ IF NoData(txlist) THEN report.transactions = << >>
         ELSE /\ Len(report.transactions) = Len(txlist.value.result)
              /\ \A i \in 1..Len(report.transactions) :
                   report.transactions[i].hash = txlist.value.result[i].hash
      /\ IF NoData(tokentx) THEN report.tokens = << >>
         ELSE {report.tokens[i].contractAddress : i \in 1..Len(report.tokens)} = Held(f)
      /\ IF HasAnswer(f, "lookupAddress") /\ AnswerTo(f, "lookupAddress").ok
         THEN report.ensName = AnswerTo(f, "lookupAddress").value
         ELSE report.ensName = Null

\* C15: in wallet mode, once balance, transaction count and block height
\* have been read, the analysis never throws, whichever of the transaction
\* lookup, the token lookup and the name lookup fail; the report has [] for
\* failed transactions, [] for failed tokens and null for a failed name, and
\* keeps the parts that succeeded; handleAnalyze then shows the results with
\* the wallet card and shows no error.
C15_WalletDegrades ==
  [][\A r \in DOMAIN calls' :
       LET f == calls'[r]
       IN  (f.entry = "handleAnalyze" /\ f.mode = "wallet" /\ f.info # Null)
             => /\ f.status # "threw"
                /\ f.status = "returned" => Degraded(f, f.result[1])
                /\ (f.status = "returned" /\ calls[r].status = "running")
                     => /\ ui'.results /\ ui'.walletCard
                        /\ ui'.cardData = f.result
                        /\ currentData' = f.result
                        /\ ui'.error = ui.error
                        /\ ui'.errorMessage = ui.errorMessage]_vars

C15_Witness ==
  \E r \in DOMAIN calls :
    /\ calls[r].entry = "handleAnalyze" /\ calls[r].status = "returned"
    /\ calls[r].mode = "wallet"
    /\ NoData(AnswerTo(calls[r], "txlist"))
    /\ ~NoData(AnswerTo(calls[r], "tokentx"))
    /\ ~AnswerTo(calls[r], "lookupAddress").ok
    /\ calls[r].result[1].transactions = << >>
    /\ Len(calls[r].result[1].tokens) = 1
    /\ calls[r].result[1].ensName = Null
    /\ ui.results /\ ~ui.error /\ ui.cardData = calls[r].result

\* frame r of handleAnalyze ends thrown in this step
Aborts(r) ==
  /\ calls'[r].entry = "handleAnalyze" /\ calls'[r].status = "threw"
  /\ IF r \in DOMAIN calls THEN calls[r].status = "running" ELSE TRUE

\* C16: the text handleAnalyze places in the error panel is, character for
\* character, the message of the error that aborted the analysis, also when
\* the message contains & < > " or '.
C16_ErrorShownVerbatim ==
  [][\A r \in DOMAIN calls' : Aborts(r) => ui'.errorMessage = calls'[r].error]_vars

WalletLookups ==
  {"getNetwork", "getBalance", "getTransactionCount", "getBlockNumber",
   "txlist", "tokentx", "balanceOf", "lookupAddress"}

Settles(r) ==
  /\ calls'[r].entry = "handleAnalyze" /\ calls'[r].status = "returned"
  /\ IF r \in DOMAIN calls THEN calls[r].status = "running" ELSE TRUE

\* C17: the mode of a request is the one selected when it started, whatever
\* handleAnalysisTypeChange does while it is in flight: that mode chooses the
\* lookups, the result card that is displayed, and the mode passed to
\* generateAIPrompt for the report.
C17_ModeFixedForRequest ==
  [][\A r \in DOMAIN calls' :
       LET f == calls'[r]
       IN  f.entry = "handleAnalyze" =>
             /\ r \in DOMAIN calls => f.mode = calls[r].mode
             /\ (f.mode = "wallet") = (f.issued \subseteq WalletLookups)
                  \/ f.issued = {}
             /\ Settles(r) =>
                  /\ ui'.walletCard = (f.mode = "wallet")
                  /\ ui'.contractCard = (f.mode = "contract")
                  /\ ui'.nftCard = (f.mode = "nft")
                  /\ ui'.prompt # Null
                  /\ ui'.prompt[1].analysisType = f.mode]_vars

\* the same without the prompt: lookups and card follow the starting mode
ModeFixedForLookupsAndCard ==
  [][\A r \in DOMAIN calls' :
       LET f == calls'[r]
       IN  f.entry = "handleAnalyze" =>
             /\ r \in DOMAIN calls => f.mode = calls[r].mode
             /\ (f.mode = "wallet") = (f.issued \subseteq WalletLookups)
                  \/ f.issued = {}
             /\ Settles(r) =>
                  /\ ui'.walletCard = (f.mode = "wallet")
                  /\ ui'.contractCard = (f.mode = "contract")
                  /\ ui'.nftCard = (f.mode = "nft")]_vars

Started(r) == calls[r].entry = "handleAnalyze" /\ calls[r].status # "rejected"

\* request r is in flight and a later request has been started
Superseded(r) ==
  /\ Started(r) /\ calls[r].status = "running"
  /\ \E s \in DOMAIN calls : s > r /\ Started(s)

\* C18: a request that is in flight when a new one is started is abandoned:
\* it issues no further lookups and writes neither its report, nor its error,
\* nor its prompt to the page, so once every request has finished the page
\* and state.currentData show the report of the most recently started one.
C18_EarlierRequestAbandoned ==
  [][/\ \A r \in DOMAIN calls :
          Superseded(r) =>
            /\ calls'[r].issued = calls[r].issued
            /\ calls'[r].status # "running" =>
                 /\ ui'.cardData = ui.cardData /\ ui'.prompt = ui.prompt
                 /\ ui'.error = ui.error /\ ui'.errorMessage = ui.errorMessage
                 /\ currentData' = currentData
     /\ \A s \in DOMAIN calls' :
          ( /\ calls'[s].entry = "handleAnalyze" /\ calls'[s].status = "returned"
            /\ \A r \in DOMAIN calls' :
                 /\ calls'[r].status # "running"
                 /\ r > s => calls'[r].entry # "handleAnalyze"
                             \/ calls'[r].status = "rejected" )
          => currentData' = calls'[s].result /\ ui'.cardData = calls'[s].result]_vars

\* the last part alone: when every request has finished and the most
\* recently started one returned, state.currentData and the card hold the
\* report of that one.
LastRequestWins ==
  \A s \in DOMAIN calls :
    ( /\ Started(s) /\ calls[s].status = "returned"
      /\ \A r \in DOMAIN calls :
           /\ calls[r].status # "running"
           /\ r > s => ~Started(r) )
    => currentData = calls[s].result /\ ui.cardData = calls[s].result

\* the input is a well-formed address with nothing but white space around it
Accepted(input) ==
  \E i, j \in 1..Len(input) :
    /\ i <= j /\ WellFormedAddress(SubSeq(input, i, j))
    /\ \A k \in 1..Len(input) : (k < i \/ k > j) => input[k] \in WhiteSpace

\* C19: when the trimmed input is empty or is not a valid address,
\* handleAnalyze shows an error and stops: it issues no provider or indexer
\* lookup, neither then nor later, does not show the loading indicator and
\* leaves state.currentData unchanged.
C19_ValidationGatesAnalysis ==
  [][/\ \A r \in DOMAIN calls' \ DOMAIN calls :
          (calls'[r].entry = "handleAnalyze" /\ ~Accepted(addressInput'))
            => /\ calls'[r].status = "rejected" /\ calls'[r].issued = {}
               /\ ui'.error
               /\ ui'.errorMessage \in {EmptyInputError, InvalidInputError}
               /\ ui'.loading = ui.loading
               /\ currentData' = currentData
               /\ provider' = provider
     /\ \A r \in DOMAIN calls :
          calls[r].status = "rejected" => calls'[r] = calls[r]]_vars

C19_Witness ==
  /\ addressInput = <<"0", "x", "1", "2">>
  /\ calls[Len(calls)].status = "rejected" /\ calls[Len(calls)].issued = {}
  /\ \E r \in DOMAIN calls : calls[r].status = "returned" /\ currentData = calls[r].result
  /\ ui.error /\ ui.errorMessage = InvalidInputError /\ ~ui.loading

\* the token contracts seen in the transfer list before token a is first seen
SeenBefore(result, a) ==
  {result[j].contractAddress :
     j \in {i \in 1..Len(result) : \A m \in 1..i : result[m].contractAddress # a}}

TokenFrames ==
  {r \in DOMAIN calls : calls[r].entry = "getTokenBalances"}

\* C21: getTokenBalances queries the distinct token contracts of the transfer
\* list in first-seen order and only the first 10 of them: no contract is
\* queried twice, at most 10 balanceOf calls are issued, and a token first
\* seen after 10 other distinct tokens is never queried and never among the
\* holdings, even when some of the first 10 have a zero balance.
C21_FirstTenDistinctQueried ==
  \A r \in TokenFrames : \A resp \in world.tokentxs :
    LET f == calls[r]
        distinct == {resp.result[i].contractAddress : i \in 1..Len(resp.result)}
    IN  /\ Len(f.queried) <= 10
        /\ \A k \in 1..Len(f.queried) :
             /\ f.queried[k] \in distinct
             /\ SeenBefore(resp.result, f.queried[k]) = {f.queried[m] : m \in 1..(k - 1)}
        /\ (f.status = "returned" /\ \E q \in 1..(r - 1) : calls[q].entry = "initialize")
             => Len(f.queried) = IF Cardinality(distinct) < 10
                                 THEN Cardinality(distinct) ELSE 10
        /\ f.status = "returned" =>
             \A i \in 1..Len(f.result[1]) :
               /\ Cardinality(SeenBefore(resp.result, f.result[1][i].contractAddress)) < 10
               /\ \E k \in 1..Len(f.queried) :
                    f.queried[k] = f.result[1][i].contractAddress

C21_Witness ==
  \E r \in TokenFrames : \E resp \in world.tokentxs :
    /\ calls[r].status = "returned"
    /\ Cardinality({resp.result[i].contractAddress : i \in 1..Len(resp.result)}) > 10
    /\ Len(resp.result) > 2 * 10
    /\ Len(calls[r].queried) = 10
    /\ Len(calls[r].result[1]) < 10

HeldTokens(f) == {f.result[1][i].contractAddress : i \in 1..Len(f.result[1])}

\* the token contracts of which the balanceOf call failed
FailedTokens(f) ==
  {f.queried[j] : j \in {i \in 1..Len(BalanceAnswers(f)) : ~BalanceAnswers(f)[i].ok}}

\* the token contracts whose transfer record states the decimals as a number
Decodable(result) ==
  {result[i].contractAddress :
     i \in {j \in 1..Len(result) :
              /\ Len(result[j].tokenDecimal) > 0
              /\ \A k \in 1..Len(result[j].tokenDecimal) :
                   result[j].tokenDecimal[k] \in DecimalCharacters}}

\* every balance call of the loop was issued and answered
LoopCompleted(f, result) ==
  /\ Len(BalanceAnswers(f)) = Len(f.queried)
  /\ (\E i \in 1..Len(f.log) : f.log[i].op = "tokentx") =>
       {f.queried[k] : k \in 1..Len(f.queried)}
         = {result[i].contractAddress : i \in 1..Len(result)}

\* C22 as claimed: a failing balanceOf call is absorbed for its token only:
\* the failing token is omitted, the balance calls of the remaining tokens are
\* still issued, and every other queried token with a positive balance is
\* among the returned holdings.
C22_OthersAllPresent ==
  \A r \in TokenFrames : \A resp \in world.tokentxs :
    (calls[r].status = "returned" /\ \E q \in 1..(r - 1) : calls[q].entry = "initialize")
      => /\ LoopCompleted(calls[r], resp.result)
         /\ HeldTokens(calls[r]) \cap FailedTokens(calls[r]) = {}
         /\ Held(calls[r]) \subseteq HeldTokens(calls[r])

\* C22 as amended: a failing balanceOf call is absorbed for its token only:
\* the failing token is omitted, the balance calls of the remaining tokens are
\* still issued, and every other queried token with a positive balance whose
\* balance can be formatted is among the returned holdings; a token whose
\* transfer record gives no number of decimals is omitted like a failing one.
C22_FailureAbsorbedPerToken ==
  \A r \in TokenFrames : \A resp \in world.tokentxs :
    (calls[r].status = "returned" /\ \E q \in 1..(r - 1) : calls[q].entry = "initialize")
      => /\ LoopCompleted(calls[r], resp.result)
         /\ HeldTokens(calls[r]) \cap FailedTokens(calls[r]) = {}
         /\ HeldTokens(calls[r]) = Held(calls[r]) \cap Decodable(resp.result)

C22_Witness ==
  \E r \in TokenFrames :
    /\ calls[r].status = "returned"
    /\ Len(BalanceAnswers(calls[r])) = 3
    /\ ~BalanceAnswers(calls[r])[1].ok
    /\ BalanceAnswers(calls[r])[2].ok /\ BalanceAnswers(calls[r])[2].value = <<7>>
    /\ BalanceAnswers(calls[r])[3].ok /\ BalanceAnswers(calls[r])[3].value = <<7>>
    /\ HeldTokens(calls[r]) = {calls[r].queried[3]}

ProviderReads ==
  {"getBalance", "getTransactionCount", "getBlockNumber", "getCode", "name",
   "symbol", "totalSupply", "balanceOf", "lookupAddress"}

\* C23: no analysis dereferences a null provider: an analysis that has issued
\* a read of the provider finds the provider created, and no analysis in
\* wallet, contract or nft mode ends with the TypeError of calling a method
\* of null, also after a failed start-up initialize.
C23_ProviderCreatedBeforeUse ==
  \A r \in DOMAIN calls :
    calls[r].entry = "handleAnalyze" =>
      /\ calls[r].issued \cap ProviderReads # {} => provider # "null"
      /\ \A method \in ProviderReads :
           ~(calls[r].status = "threw" /\ calls[r].error = NullProviderError(method))

\* the same of wallet mode alone, where getWalletInfo initializes first
WalletModeFindsProvider ==
  \A r \in DOMAIN calls :
    (calls[r].entry = "handleAnalyze" /\ calls[r].mode = "wallet") =>
      /\ calls[r].issued \cap ProviderReads # {} => provider # "null"
      /\ \A method \in ProviderReads :
           ~(calls[r].status = "threw" /\ calls[r].error = NullProviderError(method))

\* frame r is an attempt to initialize that ends thrown in this step
InitializeFails(r) ==
  /\ calls'[r].status = "threw"
  /\ calls'[r].entry \in {"init", "initialize"} \/ calls'[r].issued = {"getNetwork"}
     \/ calls'[r].error = ConfigError
  /\ IF r \in DOMAIN calls THEN calls[r].status = "running" ELSE TRUE

\* every attempt to initialize made so far has thrown
AllInitializeFailed ==
  /\ calls # << >>
  /\ \A q \in DOMAIN calls :
       (calls[q].entry \in {"init", "initialize"} \/ "getNetwork" \in calls[q].issued)
         => calls[q].status = "threw" /\ calls[q].issued \subseteq {"getNetwork"}

\* C24: a failed initialize leaves the service uninitialised: when initialize
\* throws, for missing keys or because getNetwork fails, provider is null
\* afterwards, and the next getWalletInfo attempts initialize again.
C24_FailedInitializeLeavesNull ==
  [][/\ \A r \in DOMAIN calls' : InitializeFails(r) => provider' = "null"
     /\ \A r \in DOMAIN calls' \ DOMAIN calls :
          ( /\ AllInitializeFailed
            /\ calls'[r].mode = "wallet" /\ calls'[r].status # "rejected"
            /\ calls'[r].entry \in {"handleAnalyze", "analyzeWallet", "getWalletInfo"} )
          => calls'[r].issued = {"getNetwork"} \/ calls'[r].error = ConfigError]_vars

\* the same of missing keys alone: the configuration error leaves provider null
MissingKeysLeaveNull ==
  [][\A r \in DOMAIN calls' :
       (InitializeFails(r) /\ calls'[r].error = ConfigError) => provider' = "null"]_vars

\* C25: the error panel and the results panel are never visible at the same
\* time, whatever the sequence and interleaving of handleAnalyze (valid or
\* invalid input, success or failure) and handleAnalysisTypeChange.
C25_ErrorAndResultsExclusive == ~(ui.error /\ ui.results)

VisibleCards(page) ==
  {mode \in Modes : \/ mode = "wallet" /\ page.walletCard
                    \/ mode = "contract" /\ page.contractCard
                    \/ mode = "nft" /\ page.nftCard}

\* C26: at most one of the wallet, contract and nft cards is visible: all are
\* hidden at first, each analysis that renders its report leaves exactly the
\* card of its mode visible, and nothing else changes which card is visible.
C26_OneCardOfLastReport ==
  [][/\ Cardinality(VisibleCards(ui)) <= 1
     /\ Cardinality(VisibleCards(ui')) <= 1
     /\ \A r \in DOMAIN calls' : Settles(r) => VisibleCards(ui') = {calls'[r].mode}
     /\ (\A r \in DOMAIN calls' : ~Settles(r)) => VisibleCards(ui') = VisibleCards(ui)]_vars

C26_Witness ==
  \E r1, r2 \in DOMAIN calls :
    /\ calls[r1].entry = "handleAnalyze" /\ calls[r1].status = "returned"
    /\ calls[r2].entry = "handleAnalyze" /\ calls[r2].status = "returned"
    /\ calls[r1].mode = "wallet" /\ calls[r2].mode = "contract"
    /\ ui.cardData = calls[r2].result
    /\ VisibleCards(ui) = {"contract"}

InFlight == {r \in DOMAIN calls : calls[r].entry = "handleAnalyze" /\ calls[r].status = "running"}

\* C27: the loading indicator is visible exactly while an analysis is in
\* flight: in every state in which at least one validated handleAnalyze has
\* not yet ended it is visible, and it is hidden whenever none is in flight.
C27_LoadingWhileInFlight == ui.loading = (InFlight # {})

\* the half that holds: with no analysis in flight the indicator is hidden
LoadingHiddenWhenIdle == InFlight = {} => ~ui.loading

\* C28: state.currentData changes only in the step in which an analysis
\* succeeds, and then becomes the report that step renders; a rejected input,
\* an analysis that throws and a change of analysis type leave it unchanged.
C28_DataChangesOnSuccessOnly ==
  [][/\ \A r \in DOMAIN calls' :
          Settles(r) => currentData' = calls'[r].result /\ ui'.cardData = currentData'
     /\ (\A r \in DOMAIN calls' : ~Settles(r)) => currentData' = currentData]_vars

C28_Witness ==
  \E r1, r2 \in DOMAIN calls :
    /\ r1 < r2
    /\ calls[r1].entry = "handleAnalyze" /\ calls[r1].status = "returned"
    /\ calls[r2].entry = "handleAnalyze" /\ calls[r2].status = "threw"
    /\ calls[r2].mode # calls[r1].mode
    /\ currentData = calls[r1].result

Requests == {r \in DOMAIN calls : calls[r].entry = "request"}

\* two dots in a row somewhere in the URL
HasDotDot(url) == \E i \in 1..(Len(url) - 1) : url[i] = "." /\ url[i + 1] = "."

\* C29: the file server answers a request whose URL contains ".." with 403
\* and reads no file for it; for any other request it reads one file and
\* sends one response and no more: 200 with the file's content when the read
\* succeeds, 404 when the read fails with ENOENT, 500 when it fails otherwise.
C29_ServerResponses ==
  \A r \in Requests :
    LET f == calls[r]
    IN  IF HasDotDot(f.url)
        THEN /\ f.reads = << >> /\ f.pc = "done"
             /\ Len(f.responses) = 1 /\ f.responses[1].code = 403
        ELSE /\ Len(f.reads) = 1
             /\ Len(f.responses) = (IF f.pc = "done" THEN 1 ELSE 0)
             /\ (f.pc = "done") = (f.found # Null)
             /\ f.pc = "done" =>
                  /\ f.found[1].err = "" =>
                       f.responses[1].code = 200 /\ f.responses[1].body = f.found[1].data
                  /\ f.found[1].err = "ENOENT" => f.responses[1].code = 404
                  /\ f.found[1].err \notin {"", "ENOENT"} => f.responses[1].code = 500

C29_Witness ==
  \E r1, r2 \in Requests :
    /\ HasDotDot(calls[r1].url) /\ calls[r1].responses[1].code = 403
    /\ calls[r2].found # Null /\ calls[r2].found[1].err = "EISDIR"
    /\ calls[r2].responses[1].code = 500

====
